---- MODULE Spec2Model ----
(***************************************************************************)
(* A model of the Agent Definition Format workflow engine: the Effect-based *)
(* WorkflowExecutor (validateWorkflow, executeState, step, execute), its   *)
(* condition evaluator and its transition-pattern matcher.                 *)
(*                                                                         *)
(* JavaScript strings are modelled as sequences of one-character strings,  *)
(* so that String(), pattern matching and token substitution are computed  *)
(* character by character; JavaScript objects are modelled as sequences of *)
(* <<key, value>> entries so that Object.entries order is part of the      *)
(* model.                                                                  *)
(***************************************************************************)
EXTENDS Integers, Sequences, FiniteSets, TLC

(***************************************************************************)
(* Bounds of the model.                                                    *)
(***************************************************************************)
\* The largest explicit workflow.maxSteps the model draws.
MaxStepsBound == 3
\* The deepest nesting of executeState calls the model follows.
MaxDepth == 3

(***************************************************************************)
(* Program constants.                                                      *)
(***************************************************************************)
\* workflow.maxSteps || 1000
DefaultMaxSteps == 1000
\* state.maxIterations || 100
DefaultMaxIterations == 100
\* Schedule.recurs(2): the retries after the first attempt of a step
MaxRetries == 2

\* The retries createCompletion makes of the model call: Schedule.recurs(2)
SamplingRetries == 2

(***************************************************************************)
(* Strings: sequences of characters.                                       *)
(***************************************************************************)
Digits == <<"0", "1", "2", "3", "4", "5", "6", "7", "8", "9">>

IsDigit(c) == \E i \in 1..10 : Digits[i] = c

DigitVal(c) == (CHOOSE i \in 1..10 : Digits[i] = c) - 1

\* s.startsWith(p)
StartsWith(s, p) == Len(s) >= Len(p) /\ SubSeq(s, 1, Len(p)) = p

\* s.endsWith(p)
EndsWith(s, p) == Len(s) >= Len(p) /\ SubSeq(s, Len(s) - Len(p) + 1, Len(s)) = p

\* s.slice(i) with a 0-based i >= 0
Drop(s, i) == SubSeq(s, i + 1, Len(s))

\* s.includes(c) for a single character c
Includes(s, c) == \E i \in 1..Len(s) : s[i] = c

\* The decimal digits of a natural number
RECURSIVE NatStr(_)
NatStr(n) == IF n < 10 THEN <<Digits[n + 1]>>
             ELSE NatStr(n \div 10) \o <<Digits[(n % 10) + 1]>>

\* s.replace(new RegExp(pat, 'g'), rep) for a pattern pat without
\* metacharacters: every occurrence of pat, left to right, non-overlapping
RECURSIVE ReplaceAll(_, _, _)
ReplaceAll(s, pat, rep) ==
  IF Len(s) = 0 \/ Len(pat) = 0 THEN s
  ELSE IF StartsWith(s, pat) THEN rep \o ReplaceAll(Drop(s, Len(pat)), pat, rep)
  ELSE <<s[1]>> \o ReplaceAll(Drop(s, 1), pat, rep)

(***************************************************************************)
(* JavaScript values.  A value is a record with a type tag t and one       *)
(* payload field per type (b, n, s, l); the fields a type does not use     *)
(* hold a fixed filler, so that two values are always comparable.          *)
(***************************************************************************)
Null == [t |-> "null", b |-> FALSE, n |-> 0, s |-> <<>>, l |-> <<>>]

\* undefined: the value of a property an object does not have
Undefined == [t |-> "undef", b |-> FALSE, n |-> 0, s |-> <<>>, l |-> <<>>]

Bool(x) == [t |-> "bool", b |-> x, n |-> 0, s |-> <<>>, l |-> <<>>]

Num(x) == [t |-> "num", b |-> FALSE, n |-> x, s |-> <<>>, l |-> <<>>]

StrV(x) == [t |-> "str", b |-> FALSE, n |-> 0, s |-> x, l |-> <<>>]

\* The number NaN
NaNV == [t |-> "nan", b |-> FALSE, n |-> 0, s |-> <<>>, l |-> <<>>]

\* An array of values
ListV(x) == [t |-> "list", b |-> FALSE, n |-> 0, s |-> <<>>, l |-> x]

\* A plain object, such as a tool handler's { result: ... }; s labels it
ObjV(x) == [t |-> "obj", b |-> FALSE, n |-> 0, s |-> x, l |-> <<>>]

\* String(n) for an integer n
IntStr(n) == IF n < 0 THEN <<"-">> \o NatStr(0 - n) ELSE NatStr(n)

\* String(v): Array.prototype.join renders null as the empty string
RECURSIVE JSString(_)
RECURSIVE JoinValues(_)
JSString(v) ==
  CASE v.t = "null" -> <<"n", "u", "l", "l">>
    [] v.t = "undef" -> <<"u", "n", "d", "e", "f", "i", "n", "e", "d">>
    [] v.t = "bool" -> IF v.b THEN <<"t", "r", "u", "e">>
                              ELSE <<"f", "a", "l", "s", "e">>
    [] v.t = "num"  -> IntStr(v.n)
    [] v.t = "nan"  -> <<"N", "a", "N">>
    [] v.t = "str"  -> v.s
    [] v.t = "list" -> JoinValues(v.l)
    [] v.t = "obj"  -> <<"[", "o", "b", "j", "e", "c", "t", " ",
                         "O", "b", "j", "e", "c", "t", "]">>

JoinValues(l) ==
  IF Len(l) = 0 THEN <<>>
  ELSE LET head == IF l[1].t \in {"null", "undef"} THEN <<>>
                   ELSE JSString(l[1])
       IN IF Len(l) = 1 THEN head
          ELSE head \o <<",">> \o JoinValues(Tail(l))

\* Boolean(v)
Truthy(v) ==
  CASE v.t = "null" -> FALSE
    [] v.t = "undef" -> FALSE
    [] v.t = "bool" -> v.b
    [] v.t = "num"  -> v.n # 0
    [] v.t = "nan"  -> FALSE
    [] v.t = "str"  -> v.s # <<>>
    [] v.t = "list" -> TRUE
    [] v.t = "obj"  -> TRUE

(***************************************************************************)
(* JavaScript objects: a sequence of <<key, value>> entries with distinct  *)
(* keys, in insertion order.                                               *)
(***************************************************************************)
\* key in obj
HasKey(obj, k) == \E i \in 1..Len(obj) : obj[i][1] = k

\* obj[k], for a key the object has
Get(obj, k) == obj[CHOOSE i \in 1..Len(obj) : obj[i][1] = k][2]

\* obj[k] for an object of values: undefined when the key is absent
Lookup(obj, k) == IF HasKey(obj, k) THEN Get(obj, k) ELSE Undefined

\* An assignment that replaces the whole object by the one entry
Put_Replacing(obj, k, v) == << <<k, v>> >>

\* obj[k] = v: an existing key keeps its place, a new key is appended
Put(obj, k, v) ==
  IF HasKey(obj, k)
  THEN [i \in 1..Len(obj) |-> IF obj[i][1] = k THEN <<k, v>> ELSE obj[i]]
  ELSE Append(obj, <<k, v>>)

\* Whether a key is a canonical array index ("0", "7", "12"): such keys
\* are enumerated first, in ascending numeric order
IsIndexKey(k) ==
  /\ Len(k) > 0
  /\ \A i \in 1..Len(k) : IsDigit(k[i])
  /\ (Len(k) > 1 => k[1] # "0")

RECURSIVE StrNat(_)
StrNat(k) == IF Len(k) = 0 THEN 0
             ELSE 10 * StrNat(SubSeq(k, 1, Len(k) - 1)) + DigitVal(k[Len(k)])

\* The position of entry i of obj in Object.entries(obj)
EntryRank(obj, i) ==
  IF IsIndexKey(obj[i][1])
  THEN 1 + Cardinality({j \in 1..Len(obj) :
                          /\ IsIndexKey(obj[j][1])
                          /\ StrNat(obj[j][1]) < StrNat(obj[i][1])})
  ELSE 1 + Cardinality({j \in 1..Len(obj) : IsIndexKey(obj[j][1])})
         + Cardinality({j \in 1..(i - 1) : ~IsIndexKey(obj[j][1])})

\* Object.entries(obj)
ObjectEntries(obj) ==
  [r \in 1..Len(obj) |-> obj[CHOOSE i \in 1..Len(obj) : EntryRank(obj, i) = r]]

(***************************************************************************)
(* matchesPattern.  Regular expressions are modelled for the subset made   *)
(* of literal characters, '.', a postfix '*' on one character, a leading   *)
(* '^' and a trailing '$'.                                                 *)
(***************************************************************************)
\* Whether the regular expression re matches a prefix of text
RECURSIVE MatchHere(_, _)
MatchHere(re, text) ==
  IF Len(re) = 0 THEN TRUE
  ELSE IF Len(re) >= 2 /\ re[2] = "*"
  THEN \E k \in 0..Len(text) :
         /\ \A i \in 1..k : re[1] = "." \/ re[1] = text[i]
         /\ MatchHere(Drop(re, 2), Drop(text, k))
  ELSE IF re = <<"$">> THEN Len(text) = 0
  ELSE /\ Len(text) > 0
       /\ (re[1] = "." \/ re[1] = text[1])
       /\ MatchHere(Drop(re, 1), Drop(text, 1))

\* new RegExp(re).test(text): a match anywhere in text
RegexTest(re, text) ==
  IF Len(re) > 0 /\ re[1] = "^" THEN MatchHere(Drop(re, 1), text)
  ELSE \E k \in 0..Len(text) : MatchHere(re, Drop(text, k))

\* new RegExp('^' + escaped + '$').test(text), the pattern's special
\* characters escaped and each '*' turned into '.*'
RECURSIVE WildcardTest(_, _)
WildcardTest(pattern, text) ==
  IF Len(pattern) = 0 THEN Len(text) = 0
  ELSE IF pattern[1] = "*"
  THEN \E k \in 0..Len(text) : WildcardTest(Drop(pattern, 1), Drop(text, k))
  ELSE /\ Len(text) > 0
       /\ pattern[1] = text[1]
       /\ WildcardTest(Drop(pattern, 1), Drop(text, 1))

\* matchesPattern(value, pattern)
matchesPattern(value, pattern) ==
  IF StartsWith(pattern, <<"/">>) /\ EndsWith(pattern, <<"/">>)
  THEN RegexTest(SubSeq(pattern, 2, Len(pattern) - 1), JSString(value))
  ELSE IF Includes(pattern, "*")
  THEN WildcardTest(pattern, JSString(value))
  ELSE JSString(value) = pattern

(***************************************************************************)
(* Number conversion and comparison of JavaScript values.                  *)
(***************************************************************************)
\* The printable ASCII characters, from code 32 (space) to 126; the entry
\* of code 96 is a placeholder that equals no character
Ascii ==
  <<" ", "!", "\"", "#", "$", "%", "&", "'", "(", ")", "*", "+",
    ",", "-", ".", "/", "0", "1", "2", "3", "4", "5", "6", "7",
    "8", "9", ":", ";", "<", "=", ">", "?", "@", "A", "B", "C",
    "D", "E", "F", "G", "H", "I", "J", "K", "L", "M", "N", "O",
    "P", "Q", "R", "S", "T", "U", "V", "W", "X", "Y", "Z", "[",
    "\\", "]", "^", "_", "backtick", "a", "b", "c", "d", "e", "f", "g",
    "h", "i", "j", "k", "l", "m", "n", "o", "p", "q", "r", "s",
    "t", "u", "v", "w", "x", "y", "z", "{", "|", "}", "~">>

\* c.charCodeAt(0)
CharCode(c) == 31 + (CHOOSE i \in 1..Len(Ascii) : Ascii[i] = c)

\* a < b for two strings: by code units, a proper prefix first
RECURSIVE StrLess(_, _)
StrLess(a, b) ==
  IF Len(b) = 0 THEN FALSE
  ELSE IF Len(a) = 0 THEN TRUE
  ELSE IF a[1] = b[1] THEN StrLess(Tail(a), Tail(b))
  ELSE CharCode(a[1]) < CharCode(b[1])

\* s.trim(), for the space character
RECURSIVE TrimLeft(_)
TrimLeft(s) == IF Len(s) > 0 /\ s[1] = " " THEN TrimLeft(Tail(s)) ELSE s

RECURSIVE TrimRight(_)
TrimRight(s) == IF Len(s) > 0 /\ s[Len(s)] = " "
                THEN TrimRight(SubSeq(s, 1, Len(s) - 1)) ELSE s

Trim(s) == TrimRight(TrimLeft(s))

\* A number, or NaN: [nan |-> TRUE] carries n = 0
NaN == [nan |-> TRUE, n |-> 0]

Number(x) == [nan |-> FALSE, n |-> x]

\* Number(s) for a string: the empty (or blank) string is 0, an optionally
\* signed run of decimal digits is that integer, anything else is NaN
StringToNumber(s) ==
  LET t == Trim(s)
      body == IF Len(t) > 0 /\ t[1] \in {"-", "+"} THEN Tail(t) ELSE t
  IN IF Len(t) = 0 THEN Number(0)
     ELSE IF Len(body) > 0 /\ \A i \in 1..Len(body) : IsDigit(body[i])
     THEN Number(IF t[1] = "-" THEN 0 - StrNat(body) ELSE StrNat(body))
     ELSE NaN

\* Number(v) for a value
ToNumber(v) ==
  CASE v.t = "null" -> Number(0)
    [] v.t = "undef" -> NaN
    [] v.t = "bool" -> Number(IF v.b THEN 1 ELSE 0)
    [] v.t = "num"  -> Number(v.n)
    [] v.t = "nan"  -> NaN
    [] v.t = "str"  -> StringToNumber(v.s)
    [] v.t = "list" -> StringToNumber(JSString(v))
    [] v.t = "obj"  -> NaN

\* ToPrimitive(v): arrays and objects become their strings
ToPrimitive(v) == IF v.t \in {"list", "obj"} THEN StrV(JSString(v)) ELSE v

\* a == b (loose equality) where b is a primitive
LooseEq(a, b) ==
  LET pa == ToPrimitive(a)
  IN IF pa.t \in {"null", "undef"} \/ b.t \in {"null", "undef"}
     THEN pa.t \in {"null", "undef"} /\ b.t \in {"null", "undef"}
     ELSE IF pa.t = "str" /\ b.t = "str" THEN pa.s = b.s
     ELSE LET na == ToNumber(pa)
              nb == ToNumber(b)
          IN ~na.nan /\ ~nb.nan /\ na.n = nb.n

\* a < b (the abstract relational comparison)
LooseLess(a, b) ==
  LET pa == ToPrimitive(a)
      pb == ToPrimitive(b)
  IN IF pa.t = "str" /\ pb.t = "str" THEN StrLess(pa.s, pb.s)
     ELSE LET na == ToNumber(pa)
              nb == ToNumber(pb)
          IN ~na.nan /\ ~nb.nan /\ na.n < nb.n

\* a <= b
LooseLessEq(a, b) ==
  LET pa == ToPrimitive(a)
      pb == ToPrimitive(b)
  IN IF pa.t = "str" /\ pb.t = "str" THEN ~StrLess(pb.s, pa.s)
     ELSE LET na == ToNumber(pa)
              nb == ToNumber(pb)
          IN ~na.nan /\ ~nb.nan /\ na.n <= nb.n

(***************************************************************************)
(* evaluateCondition.                                                      *)
(***************************************************************************)
\* \w: a letter, a digit or the underscore
IsWordChar(c) ==
  \/ IsDigit(c)
  \/ c = "_"
  \/ \E i \in 1..Len(Ascii) :
       /\ Ascii[i] = c
       /\ \/ (31 + i >= 65 /\ 31 + i <= 90)
          \/ (31 + i >= 97 /\ 31 + i <= 122)

\* The length of the longest prefix of s made of word characters
WordPrefixLen(s) ==
  CHOOSE k \in 0..Len(s) :
    /\ \A i \in 1..k : IsWordChar(s[i])
    /\ (k < Len(s) => ~IsWordChar(s[k + 1]))

\* The alternatives of the operator group, in the order the regular
\* expression tries them
ComparisonOps == << <<"=", "=">>, <<"!", "=">>, <<">">>, <<"<">>,
                    <<">", "=">>, <<"<", "=">> >>

\* condition.match(/^(\w+)\s*(==|!=|>|<|>=|<=)\s*(.+)$/): the first
\* alternative that is followed by at least one more character is taken;
\* the value is what follows the operator and the white space after it
\* (the last blank when nothing else follows)
ComparisonMatch(condition) ==
  LET w == WordPrefixLen(condition)
      afterVar == TrimLeft(Drop(condition, w))
      fits(i) == /\ StartsWith(afterVar, ComparisonOps[i])
                 /\ Len(afterVar) > Len(ComparisonOps[i])
  IN IF w = 0 \/ ~\E i \in 1..Len(ComparisonOps) : fits(i)
     THEN [matched |-> FALSE, varName |-> <<>>, operator |-> <<>>,
           value |-> <<>>]
     ELSE LET i == CHOOSE i \in 1..Len(ComparisonOps) :
                     fits(i) /\ \A j \in 1..(i - 1) : ~fits(j)
              afterOp == Drop(afterVar, Len(ComparisonOps[i]))
              trimmed == TrimLeft(afterOp)
          IN [matched |-> TRUE,
              varName |-> SubSeq(condition, 1, w),
              operator |-> ComparisonOps[i],
              value |-> IF Len(trimmed) > 0 THEN trimmed ELSE <<" ">>]

\* The literal of a comparison: a quoted string without its quotes, a
\* number when Number(value) is not NaN, the text itself otherwise
CompareValue(value) ==
  IF StartsWith(value, <<"\"">>) /\ EndsWith(value, <<"\"">>)
  THEN StrV(SubSeq(value, 2, Len(value) - 1))
  ELSE IF StringToNumber(value).nan THEN StrV(value)
  ELSE Num(StringToNumber(value).n)

\* evaluateCondition(condition, variables)
evaluateCondition(condition, variables) ==
  IF HasKey(variables, condition) /\ Get(variables, condition).t # "undef"
  THEN Truthy(Get(variables, condition))
  ELSE LET m == ComparisonMatch(condition)
           varValue == Lookup(variables, m.varName)
           compareValue == CompareValue(m.value)
       IN IF ~m.matched THEN FALSE
          ELSE CASE m.operator = <<"=", "=">> -> LooseEq(varValue, compareValue)
                 [] m.operator = <<"!", "=">> -> ~LooseEq(varValue, compareValue)
                 [] m.operator = <<">">> -> LooseLess(compareValue, varValue)
                 [] m.operator = <<"<">> -> LooseLess(varValue, compareValue)
                 [] m.operator = <<">", "=">> -> LooseLessEq(compareValue, varValue)
                 [] m.operator = <<"<", "=">> -> LooseLessEq(varValue, compareValue)

(***************************************************************************)
(* The elicitation service.  An Elicitation is a record [type, required,   *)
(* pattern, hasMin, min, hasMax, max, options]: required is "true",        *)
(* "false" or "unset", an absent pattern is the empty string, and an       *)
(* absent options array is the empty sequence.                             *)
(***************************************************************************)
\* An elicitation of the type with nothing else declared
ElicitationOf(type) ==
  [type |-> type, required |-> "unset", pattern |-> <<>>,
   hasMin |-> FALSE, min |-> 0, hasMax |-> FALSE, max |-> 0,
   options |-> <<>>]

\* c.toLowerCase() for one character
LowerChar(c) ==
  IF CharCode(c) >= 65 /\ CharCode(c) <= 90 THEN Ascii[CharCode(c) + 1] ELSE c

\* s.toLowerCase()
ToLowerCase(s) == [i \in 1..Len(s) |-> LowerChar(s[i])]

\* The answers a confirm elicitation accepts, and those that mean yes
ConfirmWords ==
  {<<"y", "e", "s">>, <<"n", "o">>, <<"y">>, <<"n">>,
   <<"t", "r", "u", "e">>, <<"f", "a", "l", "s", "e">>}

YesWords == {<<"y", "e", "s">>, <<"y">>, <<"t", "r", "u", "e">>}

\* Whether Number(response) - 1 is an index of the options
IsOptionIndex(response, elicitation) ==
  LET num == ToNumber(response)
  IN ~num.nan /\ num.n - 1 >= 0 /\ num.n - 1 < Len(elicitation.options)

\* validateResponse(response, elicitation): TRUE when it succeeds, FALSE
\* when it fails with a ValidationError
validateResponse(response, elicitation) ==
  CASE elicitation.type = "text" ->
         /\ response.t = "str"
         /\ elicitation.pattern # <<>>
              => RegexTest(elicitation.pattern, response.s)
    [] elicitation.type = "number" ->
         LET num == ToNumber(response)
         IN /\ ~num.nan
            /\ ~(elicitation.hasMin /\ num.n < elicitation.min)
            /\ ~(elicitation.hasMax /\ num.n > elicitation.max)
    [] elicitation.type = "confirm" ->
         ToLowerCase(JSString(response)) \in ConfirmWords
    [] elicitation.type = "select" ->
         \/ \E i \in 1..Len(elicitation.options) :
              elicitation.options[i] = JSString(response)
         \/ IsOptionIndex(response, elicitation)

\* transformResponse(response, elicitation)
transformResponse(response, elicitation) ==
  CASE elicitation.type = "number" ->
         IF ToNumber(response).nan THEN NaNV ELSE Num(ToNumber(response).n)
    [] elicitation.type = "confirm" ->
         Bool(ToLowerCase(JSString(response)) \in YesWords)
    [] elicitation.type = "select" ->
         IF IsOptionIndex(response, elicitation)
         THEN StrV(elicitation.options[ToNumber(response).n])
         ELSE response
    [] OTHER -> response

\* Whether requestElicitation returns a value for the raw response: the
\* response is valid, or the elicitation is declared not required
Admitted(response, elicitation) ==
  validateResponse(response, elicitation) \/ elicitation.required = "false"

(***************************************************************************)
(* Workflows.  A State is a record with one field per property of the      *)
(* schema; an absent string property is the empty string (the code tests   *)
(* these properties by truthiness only), an absent object or array is      *)
(* told apart by a has... flag, since an empty object is truthy; an        *)
(* absent maxIterations is 0 with declaresMaxIterations FALSE.             *)
(* A Workflow is [initial, states, maxSteps], states an object from state  *)
(* id to State and maxSteps = 0 standing for an unset maxSteps.            *)
(***************************************************************************)
BaseState ==
  [type |-> "response", template |-> <<>>,
   hasElicitation |-> FALSE, elicitation |-> ElicitationOf("text"),
   hasSampling |-> FALSE, prompt |-> <<>>,
   tool |-> <<>>, hasParameters |-> FALSE, parameters |-> <<>>,
   handler |-> <<>>,
   condition |-> <<>>, onTrue |-> <<>>, onFalse |-> <<>>,
   hasBranches |-> FALSE, branches |-> <<>>,
   body |-> <<>>, declaresMaxIterations |-> FALSE, maxIterations |-> 0,
   hasTransitions |-> FALSE, transitions |-> <<>>]

\* workflow.states[id] is defined
HasState(workflow, id) == HasKey(workflow.states, id)

\* workflow.states[id]
StateOf(workflow, id) == Get(workflow.states, id)

Constructor == <<"c", "o", "n", "s", "t", "r", "u", "c", "t", "o", "r">>

\* The keys a lookup finds on Object.prototype when the object has no
\* such key of its own; 'constructor' stands for all of them (toString,
\* valueOf, hasOwnProperty, __proto__, ...)
ObjectPrototypeKeys == {Constructor}

\* workflow.states[id] is truthy: a state of the workflow, or a member
\* that the states object inherits
HasProperty(workflow, id) ==
  HasState(workflow, id) \/ id \in ObjectPrototypeKeys

\* The targets a state's transitions map declares
TransitionTargets(state) ==
  IF state.hasTransitions
  THEN {state.transitions[i][2] : i \in 1..Len(state.transitions)}
  ELSE {}

\* The states reached from the initial state over declared transitions:
\* the sweep of validateWorkflow, which follows transitions only
RECURSIVE ReachableFrom(_, _)
ReachableFrom(workflow, seen) ==
  LET more == UNION {TransitionTargets(StateOf(workflow, id)) : id \in seen}
      next == seen \cup {x \in more : x # <<>>}
  IN IF next = seen THEN seen ELSE ReachableFrom(workflow, next)

\* The states validateWorkflow reports (warns) as unreachable
unreachableStates(workflow) ==
  {workflow.states[i][1] : i \in 1..Len(workflow.states)}
    \ ReachableFrom(workflow, {workflow.initial})

\* A validation that also rejects a workflow with unreachable states
validateWorkflow_RejectingUnreachable(workflow) ==
  /\ HasState(workflow, workflow.initial)
  /\ \A i \in 1..Len(workflow.states) :
       \A target \in TransitionTargets(workflow.states[i][2]) :
         target # <<>> => HasState(workflow, target)
  /\ unreachableStates(workflow) = {}

\* validateWorkflow(workflow): the initial state exists and every non-empty
\* target of a transitions map names a state
validateWorkflow(workflow) ==
  /\ HasState(workflow, workflow.initial)
  /\ \A i \in 1..Len(workflow.states) :
       \A target \in TransitionTargets(workflow.states[i][2]) :
         target # <<>> => HasState(workflow, target)

(***************************************************************************)
(* Transition resolution at the end of executeState.                       *)
(***************************************************************************)
DefaultKey == <<"d", "e", "f", "a", "u", "l", "t">>

\* transitions[k], the empty string standing for undefined
TargetOf(transitions, k) ==
  IF HasKey(transitions, k) THEN Get(transitions, k) ELSE <<>>

\* The first entry, in Object.entries order, whose key is not 'default'
\* and matches the result as a pattern; 0 when there is none
FirstPatternMatch(transitions, result) ==
  LET entries == ObjectEntries(transitions)
      hit(i) == /\ entries[i][1] # DefaultKey
                /\ matchesPattern(result, entries[i][1])
  IN IF \E i \in 1..Len(entries) : hit(i)
     THEN CHOOSE i \in 1..Len(entries) :
            hit(i) /\ \A j \in 1..(i - 1) : ~hit(j)
     ELSE 0

\* A resolution that consults a declared transitions map before the
\* target the state kind produced
ResolveNextState_MapFirst(state, result, nextState) ==
  LET i == FirstPatternMatch(state.transitions, result)
      fromMap ==
        IF TargetOf(state.transitions, DefaultKey) # <<>>
        THEN TargetOf(state.transitions, DefaultKey)
        ELSE IF Truthy(result) /\ TargetOf(state.transitions, JSString(result)) # <<>>
        THEN TargetOf(state.transitions, JSString(result))
        ELSE IF i = 0 THEN <<>> ELSE ObjectEntries(state.transitions)[i][2]
  IN IF state.hasTransitions /\ fromMap # <<>> THEN fromMap ELSE nextState

\* A resolution that tries the exact key before 'default'
ResolveNextState_ExactFirst(state, result, nextState) ==
  IF nextState # <<>> \/ ~state.hasTransitions THEN nextState
  ELSE IF Truthy(result) /\ TargetOf(state.transitions, JSString(result)) # <<>>
  THEN TargetOf(state.transitions, JSString(result))
  ELSE IF TargetOf(state.transitions, DefaultKey) # <<>>
  THEN TargetOf(state.transitions, DefaultKey)
  ELSE LET i == FirstPatternMatch(state.transitions, result)
       IN IF i = 0 THEN <<>> ELSE ObjectEntries(state.transitions)[i][2]

\* The next state executeState returns: the one the state kind set, else
\* transitions.default, else the target keyed by String(result) for a
\* truthy result, else the target of the first matching pattern; the
\* empty string standing for undefined
ResolveNextState(state, result, nextState) ==
  IF nextState # <<>> \/ ~state.hasTransitions THEN nextState
  ELSE IF TargetOf(state.transitions, DefaultKey) # <<>>
  THEN TargetOf(state.transitions, DefaultKey)
  ELSE IF Truthy(result) /\ TargetOf(state.transitions, JSString(result)) # <<>>
  THEN TargetOf(state.transitions, JSString(result))
  ELSE LET i == FirstPatternMatch(state.transitions, result)
       IN IF i = 0 THEN <<>> ELSE ObjectEntries(state.transitions)[i][2]

(***************************************************************************)
(* Token substitution.                                                     *)
(***************************************************************************)
\* The token '{key}'
Token(key) == <<"{">> \o key \o <<"}">>

\* The template after the replacements of entries i.. of the variables,
\* each applied to the outcome of the one before
RECURSIVE RenderFrom(_, _, _)
RenderFrom(text, entries, i) ==
  IF i > Len(entries) THEN text
  ELSE RenderFrom(ReplaceAll(text, Token(entries[i][1]), JSString(entries[i][2])),
                  entries, i + 1)

\* The response of a response state: state.template || '' with every
\* {key} replaced, variable by variable in Object.entries order
RenderTemplate(template, variables) ==
  RenderFrom(template, ObjectEntries(variables), 1)

\* The params a tool handler receives: each string parameter is assigned
\* once per variable, every time from the parameter's original text, so
\* it ends as the original with the last variable's token replaced
SubstituteParameters(parameters, variables) ==
  LET entries == ObjectEntries(variables)
      last == entries[Len(entries)]
  IN [i \in 1..Len(parameters) |->
        IF parameters[i][2].t = "str" /\ Len(entries) > 0
        THEN <<parameters[i][1],
               StrV(ReplaceAll(parameters[i][2].s, Token(last[1]),
                               JSString(last[2])))>>
        ELSE parameters[i]]

\* The keys under which a state's outputs are stored
ResponseKey(id) == id \o <<"_", "r", "e", "s", "p", "o", "n", "s", "e">>

CompletionKey(id) ==
  id \o <<"_", "c", "o", "m", "p", "l", "e", "t", "i", "o", "n">>

ResultKey(id) == id \o <<"_", "r", "e", "s", "u", "l", "t">>

ResultsKey(id) == id \o <<"_", "r", "e", "s", "u", "l", "t", "s">>

IterationKey == <<"i", "t", "e", "r", "a", "t", "i", "o", "n">>

(***************************************************************************)
(* The state of one run of execute.                                        *)
(*                                                                         *)
(* context.variables is a single object: step passes it on by reference    *)
(* (newContext.variables = context.variables) and executeState spreads     *)
(* the context only one level deep for branches and loop bodies, so one    *)
(* variable, variables, holds it for the whole run.                        *)
(*                                                                         *)
(* frames holds the executeState calls in progress during a step attempt,  *)
(* by path: <<>> is the call step makes, p \o <<i>> the call a parallel    *)
(* state at p makes for its i-th branch, p \o <<1>> the call a loop state  *)
(* at p makes for its body.  A frame's entry and view fields record the    *)
(* variables as they were when the call was entered and when it last read  *)
(* context.variables; its tries field counts the model calls that          *)
(* createCompletion has made for it, and its raw field holds the raw       *)
(* response its elicitation was answered with.                             *)
(***************************************************************************)
VARIABLES
  workflow,      \* the workflow being executed
  input,         \* initialContext
  pc,            \* where execute is
  currentState,  \* context.currentState
  variables,     \* context.variables
  history,       \* context.history
  steps,         \* the steps counter of execute
  attempts,      \* the attempts of step made in the current iteration
  frames,        \* the executeState calls of the current attempt
  lastResult,    \* the result the last completed executeState returned
  lastNext,      \* the nextState it returned ('' for undefined)
  outcome,       \* how execute ended
  bridge,        \* the fallback bridge
  runtime,       \* the runtime with fallback
  machine        \* the XState workflow machine

executorVars ==
  <<workflow, input, pc, currentState, variables, history, steps,
    attempts, frames, lastResult, lastNext, outcome>>

vars == <<executorVars, bridge, runtime, machine>>

\* A call of executeState that has not run yet
NewFrame(id) ==
  [state |-> id, pc |-> "start", call |-> "none", result |-> Null,
   next |-> <<>>, iteration |-> 0, results |-> <<>>, params |-> <<>>,
   err |-> "none", entry |-> <<>>, view |-> <<>>, hasRead |-> FALSE,
   tries |-> 0, raw |-> Null, interrupted |-> {}]

IsPrefix(p, q) == Len(p) <= Len(q) /\ SubSeq(q, 1, Len(p)) = p

\* The calls made by the call at p
ChildPaths(m, p) ==
  {q \in DOMAIN m.frames : Len(q) = Len(p) + 1 /\ IsPrefix(p, q)}

SetFrame(m, p, f) == [m EXCEPT !.frames = (p :> f) @@ m.frames]

\* The machine without the calls below p
DropBelow(m, p) ==
  [m EXCEPT !.frames =
     [q \in {r \in DOMAIN m.frames : r = p \/ ~IsPrefix(p, r)} |-> m.frames[q]]]

\* The call at p reads context.variables
ReadVariables(m, p) ==
  SetFrame(m, p, [m.frames[p] EXCEPT !.view = m.variables, !.hasRead = TRUE])

\* The call at p returns { result, nextState }, nextState resolved from
\* the state's transitions
Complete(m, p, result, nextState) ==
  LET f == m.frames[p]
  IN SetFrame(m, p,
       [f EXCEPT !.pc = "done", !.call = "none", !.result = result,
                 !.next = ResolveNextState(StateOf(workflow, f.state),
                                           result, nextState)])

\* The call at p fails; the calls it made are interrupted
Fail(m, p, err) ==
  SetFrame(DropBelow(m, p), p,
           [m.frames[p] EXCEPT !.pc = "fail", !.call = "none", !.err = err])

\* state.maxIterations || 100
MaxIterationsOf(state) ==
  IF state.maxIterations # 0 THEN state.maxIterations ELSE DefaultMaxIterations

\* One turn of a loop state's while: the condition is evaluated against
\* the variables and the iteration counter; the body is called, or the
\* results are stored and the call returns.  A body deeper than MaxDepth
\* is not followed: the call stays at "deep"
LoopTurn(m, p) ==
  LET f == m.frames[p]
      st == StateOf(workflow, f.state)
      shouldContinue ==
        /\ f.iteration < MaxIterationsOf(st)
        /\ evaluateCondition(st.condition,
                             Put(m.variables, IterationKey, Num(f.iteration)))
      m1 == ReadVariables(m, p)
  IN IF ~(f.iteration < MaxIterationsOf(st))
     THEN Complete([m EXCEPT !.variables =
                      Put(@, ResultsKey(f.state), ListV(f.results))],
                   p, ListV(f.results), <<>>)
     ELSE IF shouldContinue
     THEN IF Len(p) >= MaxDepth
          THEN SetFrame(m1, p, [m1.frames[p] EXCEPT !.pc = "deep"])
          ELSE SetFrame(SetFrame(m1, p, [m1.frames[p] EXCEPT !.pc = "body"]),
                        Append(p, 1), NewFrame(st.body))
     ELSE Complete([m1 EXCEPT !.variables =
                      Put(@, ResultsKey(f.state), ListV(f.results))],
                   p, ListV(f.results), <<>>)

\* The machine with a call for each branch i.. of the parallel state at p
RECURSIVE SpawnFrom(_, _, _, _)
SpawnFrom(m, p, branches, i) ==
  IF i > Len(branches) THEN m
  ELSE SpawnFrom(SetFrame(m, Append(p, i), NewFrame(branches[i])),
                 p, branches, i + 1)

\* executeState up to its first suspension, for the call at p
Start(m, p) ==
  LET id == m.frames[p].state
      m0 == SetFrame(m, p, [m.frames[p] EXCEPT !.entry = m.variables])
      f == m0.frames[p]
      st == StateOf(workflow, id)
      conditionResult == evaluateCondition(st.condition, m.variables)
  IN IF ~HasProperty(workflow, id)
     THEN \* state is undefined: reading state.type throws
          Fail(m0, p, "TypeError")
     ELSE IF ~HasState(workflow, id)
     THEN \* an inherited member has no type and no transitions: no case
          \* of the switch runs and no next state is resolved
          SetFrame(m0, p, [f EXCEPT !.pc = "done"])
     ELSE CASE st.type = "response" ->
                 Complete(ReadVariables(m0, p), p,
                          StrV(RenderTemplate(st.template, m.variables)), <<>>)
            [] st.type = "elicitation" ->
                 IF st.hasElicitation
                 THEN SetFrame(m0, p, [f EXCEPT !.pc = "await",
                                                !.call = "elicitation",
                                                !.view = m.variables,
                                                !.hasRead = TRUE])
                 ELSE Complete(m0, p, Null, <<>>)
            [] st.type = "sampling" ->
                 IF st.hasSampling \/ st.prompt # <<>>
                 THEN SetFrame(m0, p, [f EXCEPT !.pc = "await",
                                                !.call = "sampling",
                                                !.tries = 1,
                                                !.view = m.variables,
                                                !.hasRead = TRUE])
                 ELSE Complete(m0, p, Null, <<>>)
            [] st.type = "tool" ->
                 IF st.tool # <<>> /\ st.hasParameters
                 THEN SetFrame(m0, p, [f EXCEPT !.pc = "await",
                                                !.call = "loader"])
                 ELSE Complete(m0, p, Null, <<>>)
            [] st.type = "conditional" ->
                 IF st.condition # <<>>
                 THEN Complete(ReadVariables(m0, p), p, Bool(conditionResult),
                               IF conditionResult THEN st.onTrue ELSE st.onFalse)
                 ELSE Complete(m0, p, Null, <<>>)
            [] st.type = "parallel" ->
                 IF ~st.hasBranches THEN Complete(m0, p, Null, <<>>)
                 ELSE IF Len(p) >= MaxDepth /\ Len(st.branches) > 0
                 THEN SetFrame(m0, p, [f EXCEPT !.pc = "deep"])
                 ELSE SpawnFrom(SetFrame(m0, p, [f EXCEPT !.pc = "join"]),
                                p, st.branches, 1)
            [] st.type = "loop" ->
                 IF st.condition # <<>> /\ st.body # <<>>
                 THEN LoopTurn(m0, p)
                 ELSE Complete(m0, p, Null, <<>>)

\* context.variables after the merge of the results of branches i..
RECURSIVE MergeFrom(_, _, _, _)
MergeFrom(object, branches, results, i) ==
  IF i > Len(branches) THEN object
  ELSE MergeFrom(Put(object, ResultKey(branches[i]), results[i]),
                 branches, results, i + 1)

\* Effect.all over the branch calls of the parallel state at p has
\* settled.  Every branch succeeded: the results are merged in branch
\* order and the call returns.  A branch failed: Effect.all fails with
\* that failure and interrupts the branches still running
Join(m, p) ==
  LET f == m.frames[p]
      st == StateOf(workflow, f.state)
      n == Len(st.branches)
      failed == {i \in 1..n : m.frames[Append(p, i)].pc = "fail"}
      first == CHOOSE i \in failed : \A j \in failed : i <= j
      results == [i \in 1..n |-> m.frames[Append(p, i)].result]
      merged == [DropBelow(m, p) EXCEPT
                   !.variables = MergeFrom(@, st.branches, results, 1)]
      running == {i \in 1..n : m.frames[Append(p, i)].pc \notin {"done", "fail"}}
  IN IF failed # {}
     THEN Fail(SetFrame(m, p, [f EXCEPT !.interrupted = running]),
               p, m.frames[Append(p, first)].err)
     ELSE Complete(merged, p, ListV(results), <<>>)

\* The body call of the loop state at p has settled: its result is
\* pushed and the while takes its next turn, or the loop fails with the
\* body's failure
BodyDone(m, p) ==
  LET f == m.frames[p]
      body == m.frames[Append(p, 1)]
      m1 == SetFrame(DropBelow(m, p), p,
                     [f EXCEPT !.results = Append(@, body.result),
                               !.iteration = @ + 1])
  IN IF body.pc = "fail" THEN Fail(m, p, body.err) ELSE LoopTurn(m1, p)

\* p before q in the order the calls are started: the shallower first,
\* then by branch index
LexLess(p, q) ==
  \E i \in 1..Len(p) : p[i] < q[i] /\ \A j \in 1..(i - 1) : p[j] = q[j]

\* The calls that have not run yet
StartReady(m) == {p \in DOMAIN m.frames : m.frames[p].pc = "start"}

\* The calls whose awaited calls have settled
ResumeReady(m) ==
  {p \in DOMAIN m.frames :
     \/ /\ m.frames[p].pc = "join"
        /\ \/ \A q \in ChildPaths(m, p) : m.frames[q].pc = "done"
           \/ \E q \in ChildPaths(m, p) : m.frames[q].pc = "fail"
     \/ /\ m.frames[p].pc = "body"
        /\ m.frames[Append(p, 1)].pc \in {"done", "fail"}}

\* Whether some call can go on without a collaborator settling
CanRun(m) == StartReady(m) # {} \/ ResumeReady(m) # {}

\* One call goes on: a call that has not run yet (the shallowest, then
\* the lowest branch), else a call whose awaited calls settled (the
\* deepest)
InternalStep(m) ==
  IF StartReady(m) # {}
  THEN Start(m, CHOOSE p \in StartReady(m) :
                  \A q \in StartReady(m) :
                    \/ p = q
                    \/ Len(p) < Len(q)
                    \/ (Len(p) = Len(q) /\ LexLess(p, q)))
  ELSE LET p == CHOOSE p \in ResumeReady(m) :
                  \A q \in ResumeReady(m) :
                    \/ p = q
                    \/ Len(p) > Len(q)
                    \/ (Len(p) = Len(q) /\ LexLess(p, q))
       IN IF m.frames[p].pc = "join" THEN Join(m, p) ELSE BodyDone(m, p)

(***************************************************************************)
(* The collaborators: what a suspended call can be resumed with.           *)
(***************************************************************************)
\* The raw responses the client can give to an elicitation, by type: for
\* each type some that validateResponse accepts and some that it rejects
RawResponses(elicitation) ==
  CASE elicitation.type = "confirm" ->
         {StrV(<<"y", "e", "s">>), StrV(<<"N", "o">>), StrV(<<"o", "k">>)}
    [] elicitation.type = "number" ->
         {Num(0), Num(7), StrV(<<"x">>)}
    [] elicitation.type = "select" ->
         {StrV(<<"o", "k">>), StrV(<<"2">>), StrV(<<"z", "z">>)}
    [] elicitation.type = "text" ->
         {StrV(<<"o", "k">>), StrV(<<>>), Num(7)}

\* The contents createCompletion can yield
SamplingValues == {StrV(<<"o", "k">>), StrV(<<"n", "o">>)}

\* The results a tool handler can yield
ToolValues == {ObjV(<<"r">>), StrV(<<"o", "k">>), Bool(FALSE), Num(0)}

\* The failures of each collaborator call
CallFailures(call) ==
  CASE call = "elicitation" -> {"ElicitationError"}
    [] call = "sampling"    -> {"SamplingError", "TimeoutError"}
    [] call = "loader"      -> {"HandlerNotFoundError"}
    [] call = "handler"     -> {"WorkflowError"}

\* The values a collaborator call of the state can succeed with: for an
\* elicitation the raw responses requestElicitation returns a value for;
\* a loaded handler is not a value of the workflow and is left as null
CallValues(call, state) ==
  CASE call = "elicitation" ->
         {r \in RawResponses(state.elicitation) : Admitted(r, state.elicitation)}
    [] call = "sampling"    -> SamplingValues
    [] call = "loader"      -> {Null}
    [] call = "handler"     -> ToolValues

\* The suspended call at p resumes with the value v: the output (for an
\* elicitation the transformed raw response v) is stored under the
\* state's key and the call returns; a loaded handler is called with the
\* substituted parameters and awaited
Resume(m, p, v) ==
  LET f == m.frames[p]
      st == StateOf(workflow, f.state)
      store(key) == [m EXCEPT !.variables = Put(@, key, v)]
      value == transformResponse(v, st.elicitation)
      answered ==
        SetFrame([m EXCEPT !.variables = Put(@, ResponseKey(f.state), value)],
                 p, [f EXCEPT !.raw = v])
  IN CASE f.call = "elicitation" -> Complete(answered, p, value, <<>>)
       [] f.call = "sampling" ->
            Complete(store(CompletionKey(f.state)), p, v, <<>>)
       [] f.call = "loader" ->
            SetFrame(m, p,
              [f EXCEPT !.call = "handler",
                        !.params = SubstituteParameters(st.parameters,
                                                        m.variables),
                        !.view = m.variables, !.hasRead = TRUE])
       [] f.call = "handler" ->
            Complete(store(ResultKey(f.state)), p, v, <<>>)

(***************************************************************************)
(* The failures: tagged records that carry only the fields of their class. *)
(***************************************************************************)
\* The fields of each failure class
ErrorFields(err) ==
  CASE err = "ValidationError"      -> {"field", "message", "value"}
    [] err = "HandlerNotFoundError" -> {"handlerName", "path"}
    [] err = "StateTransitionError" -> {"fromState", "toState", "reason"}
    [] err = "TimeoutError"         -> {"operation", "timeoutMs"}
    [] err = "ElicitationError"     -> {"type", "prompt", "message"}
    [] err = "SamplingError"        -> {"prompt", "message", "model"}
    [] err = "WorkflowError"        -> {"workflowId", "state", "message"}

\* The field in which the executor puts context.currentState when it
\* builds the failure, '' for the failures built by the collaborators
StateField(err) ==
  CASE err = "StateTransitionError" -> "fromState"
    [] err = "WorkflowError"        -> "state"
    [] err = "TimeoutError"         -> "operation"
    [] OTHER                        -> ""

(***************************************************************************)
(* execute and step.                                                       *)
(***************************************************************************)
\* No executeState call in progress
NoFrames == [p \in {} |-> NewFrame(<<>>)]

Root == <<>>

\* workflow.maxSteps || 1000
EffectiveMaxSteps(w) == IF w.maxSteps # 0 THEN w.maxSteps ELSE DefaultMaxSteps

\* A response state without transitions
IsTerminal(state) == state.type = "response" /\ ~state.hasTransitions

\* A budget test that lets one more step through
WithinBudget_Inclusive(n, w) == n <= EffectiveMaxSteps(w)

\* The budget test of execute's while
WithinBudget(n, w) == n < EffectiveMaxSteps(w)

\* The executeState calls in progress and the variables they share
Machine == [frames |-> frames, variables |-> variables]

\* Every call in progress is suspended on a collaborator or settled: the
\* synchronous part of the attempt has run to its end
Quiescent == ~CanRun(Machine)

\* step begins: when workflow.states[context.currentState] is falsy it
\* fails with a StateTransitionError, otherwise executeState is called
\* for the current state
BeginStep ==
  IF ~HasProperty(workflow, currentState)
  THEN (Root :> [NewFrame(currentState) EXCEPT !.pc = "fail",
                                              !.err = "StateTransitionError"])
  ELSE (Root :> NewFrame(currentState))

\* An entry whose snapshot is empty
HistoryEntry_Empty(id, object) == [state |-> id, variables |-> <<>>]

\* An entry that names the initial state whatever state was executed
HistoryEntry_OfInitial(id, object) ==
  [state |-> workflow.initial, variables |-> object]

\* The entry step appends to the history
HistoryEntry(id, object) == [state |-> id, variables |-> object]

\* A stuck test that ignores whether the state declares transitions
IsStuck_IgnoringTransitions(newState, previousState, state) ==
  newState = previousState

\* The test that stops execute after a step that did not move
IsStuck(newState, previousState, state) ==
  newState = previousState /\ ~state.hasTransitions

\* execute validates the workflow and initializes the context
ExecuteStart ==
  /\ pc = "validate"
  /\ IF validateWorkflow(workflow)
     THEN /\ pc' = "loop"
          /\ currentState' = workflow.initial
          /\ variables' = input
          /\ outcome' = outcome
     ELSE /\ pc' = "failed"
          /\ outcome' = "ValidationFailed"
          /\ UNCHANGED <<currentState, variables>>
  /\ UNCHANGED <<machine, runtime, bridge, workflow, input, history, steps, attempts, frames,
                 lastResult, lastNext>>

\* The head of execute's while: the budget and the terminal test, then
\* the first attempt of step
ExecuteIterate ==
  /\ pc = "loop"
  /\ IF ~WithinBudget(steps, workflow)
     THEN /\ pc' = "done"
          /\ outcome' = "budget"
          /\ UNCHANGED <<variables, frames, attempts>>
     ELSE IF ~HasProperty(workflow, currentState)
     THEN \* state is undefined: reading state.type throws
          /\ pc' = "crashed"
          /\ outcome' = "TypeError"
          /\ UNCHANGED <<variables, frames, attempts>>
     ELSE IF HasState(workflow, currentState)
               /\ IsTerminal(StateOf(workflow, currentState))
     THEN /\ pc' = "done"
          /\ outcome' = "terminal"
          /\ UNCHANGED <<variables, frames, attempts>>
     ELSE /\ pc' = "step"
          /\ attempts' = 1
          /\ frames' = BeginStep
          /\ UNCHANGED <<variables, outcome>>
  /\ UNCHANGED <<machine, runtime, bridge, workflow, input, currentState, history, steps,
                 lastResult, lastNext>>

\* The synchronous part of the attempt goes on by one call: a call that
\* has not run yet runs to its first suspension, or a parallel or loop
\* state whose awaited calls settled resumes.  No collaborator settles
\* and no timer fires before this part has run to its end
Advance ==
  /\ pc = "step"
  /\ CanRun(Machine)
  /\ frames' = InternalStep(Machine).frames
  /\ variables' = InternalStep(Machine).variables
  /\ UNCHANGED <<machine, runtime, bridge, workflow, input, pc, currentState, history, steps, attempts,
                 lastResult, lastNext, outcome>>

\* A collaborator call settles with a value
CallSucceeds ==
  /\ pc = "step"
  /\ Quiescent
  /\ \E p \in DOMAIN frames :
       /\ frames[p].pc = "await"
       /\ \E v \in CallValues(frames[p].call, StateOf(workflow, frames[p].state)) :
            /\ frames' = Resume(Machine, p, v).frames
            /\ variables' = Resume(Machine, p, v).variables
  /\ UNCHANGED <<machine, runtime, bridge, workflow, input, pc, currentState, history, steps, attempts,
                 lastResult, lastNext, outcome>>

\* A collaborator call settles with a failure; createCompletion fails
\* with a TimeoutError only when its retries of the model call are used
\* up, and requestElicitation fails only on a raw response that it does
\* not return a value for
CallFails ==
  /\ pc = "step"
  /\ Quiescent
  /\ \E p \in DOMAIN frames :
       /\ frames[p].pc = "await"
       /\ \E e \in CallFailures(frames[p].call) :
            /\ (frames[p].call = "sampling" /\ e = "TimeoutError")
                 => frames[p].tries > SamplingRetries
            /\ frames[p].call = "elicitation"
                 => \E r \in RawResponses(StateOf(workflow, frames[p].state).elicitation) :
                      ~Admitted(r, StateOf(workflow, frames[p].state).elicitation)
            /\ frames' = Fail(Machine, p, e).frames
  /\ UNCHANGED <<machine, runtime, bridge, workflow, input, pc, currentState, variables, history, steps,
                 attempts, lastResult, lastNext, outcome>>

\* The model call of createCompletion exceeds its timeout and retries are
\* left: createCompletion calls the model again
SamplingRetry ==
  /\ pc = "step"
  /\ Quiescent
  /\ \E p \in DOMAIN frames :
       /\ frames[p].pc = "await"
       /\ frames[p].call = "sampling"
       /\ frames[p].tries <= SamplingRetries
       /\ frames' = [frames EXCEPT ![p].tries = @ + 1]
  /\ UNCHANGED <<machine, runtime, bridge, workflow, input, pc, currentState, variables, history, steps,
                 attempts, lastResult, lastNext, outcome>>

\* Effect.timeout fires while executeState has not settled: the call is
\* interrupted and the attempt fails with a TimeoutError
StepTimeout ==
  /\ pc = "step"
  /\ Quiescent
  /\ frames[Root].pc \notin {"done", "fail"}
  /\ frames' = Fail(Machine, Root, "TimeoutError").frames
  /\ UNCHANGED <<machine, runtime, bridge, workflow, input, pc, currentState, variables, history, steps,
                 attempts, lastResult, lastNext, outcome>>

\* executeState returned: step builds the new context, and execute tests
\* whether the run is stuck before it counts the step
StepReturns ==
  /\ pc = "step"
  /\ frames[Root].pc = "done"
  /\ LET nextState == frames[Root].next
         newState == IF nextState # <<>> THEN nextState ELSE currentState
     IN /\ currentState' = newState
        /\ history' = Append(history, HistoryEntry(currentState, variables))
        /\ lastResult' = frames[Root].result
        /\ lastNext' = nextState
        /\ IF IsStuck(newState, currentState, StateOf(workflow, currentState))
           THEN /\ pc' = "done"
                /\ outcome' = "stuck"
                /\ steps' = steps
           ELSE /\ pc' = "loop"
                /\ outcome' = outcome
                /\ steps' = steps + 1
  /\ frames' = NoFrames
  /\ UNCHANGED <<machine, runtime, bridge, workflow, input, variables, attempts>>

\* A schedule that recurs once more
RetriesLeft_OneMore(n) == n <= MaxRetries + 1

\* Schedule.recurs(2) after n attempts: whether the schedule recurs
RetriesLeft(n) == n <= MaxRetries

\* The attempt failed: a typed failure is retried after a delay while
\* retries are left and ends execute otherwise; a thrown error is a
\* defect, which Effect.retry does not retry
StepFails ==
  /\ pc = "step"
  /\ frames[Root].pc = "fail"
  /\ IF frames[Root].err = "TypeError"
     THEN pc' = "crashed" /\ outcome' = "TypeError"
     ELSE IF RetriesLeft(attempts)
     THEN pc' = "backoff" /\ outcome' = outcome
     ELSE pc' = "failed" /\ outcome' = frames[Root].err
  /\ frames' = NoFrames
  /\ UNCHANGED <<machine, runtime, bridge, workflow, input, currentState, variables, history, steps,
                 attempts, lastResult, lastNext>>

\* The retry delay elapsed: step is attempted again with the same context
RetryStep ==
  /\ pc = "backoff"
  /\ frames' = BeginStep
  /\ pc' = "step"
  /\ attempts' = attempts + 1
  /\ UNCHANGED <<machine, runtime, bridge, workflow, input, currentState, variables, history, steps,
                 lastResult, lastNext, outcome>>

Next ==
  \/ ExecuteStart
  \/ ExecuteIterate
  \/ Advance
  \/ CallSucceeds
  \/ CallFails
  \/ SamplingRetry
  \/ StepTimeout
  \/ StepReturns
  \/ StepFails
  \/ RetryStep

(***************************************************************************)
(* The workflows and initial contexts the model draws.                     *)
(***************************************************************************)
\* State ids; Z is never the id of a state
A == <<"a">>

B == <<"b">>

C == <<"c">>

Z == <<"z">>

\* A workflow
Workflow(initial, states, maxSteps) ==
  [initial |-> initial, states |-> states,
   declaresMaxSteps |-> maxSteps # 0, maxSteps |-> maxSteps]

\* An object with one entry
Entry(k, v) == << <<k, v>> >>

\* A response state; noTransitions leaves the transitions undeclared
Response(template, noTransitions, transitions) ==
  [BaseState EXCEPT !.type = "response", !.template = template,
                    !.hasTransitions = ~noTransitions,
                    !.transitions = transitions]

\* The declarations of a transitions property: absent, or a map with only
\* the key 'default'
DefaultOnly(targets) ==
  {[absent |-> TRUE, map |-> <<>>]}
    \cup {[absent |-> FALSE, map |-> Entry(DefaultKey, t)] : t \in targets}

\* The values of workflow.maxSteps: unset (0) or an explicit budget
MaxStepsChoices == 0..MaxStepsBound

\* Chains and cycles of response states over a, b, c, with targets that
\* may be missing
ChainWorkflows ==
  {Workflow(i,
            << <<A, Response(<<"h", "i">>, ta.absent, ta.map)>>,
               <<B, Response(<<>>, tb.absent, tb.map)>>,
               <<C, Response(<<>>, tc.absent, tc.map)>> >>,
            n) :
     i \in {A, Z}, ta \in DefaultOnly({A, B, Z}), tb \in DefaultOnly({A, C}),
     tc \in DefaultOnly({C}), n \in 1..MaxStepsBound}

\* A state that moves to itself, under every budget including the
\* default, and under a declared maxSteps: 0
SelfLoopWorkflows ==
  {Workflow(A, Entry(A, Response(<<>>, FALSE, Entry(DefaultKey, A))), n) :
     n \in MaxStepsChoices}
    \cup {[Workflow(A, Entry(A, Response(<<>>, FALSE, Entry(DefaultKey, A))), 0)
             EXCEPT !.declaresMaxSteps = TRUE]}

\* An elicitation state; noSpec leaves state.elicitation undeclared
Elicitation(type, noSpec, noTransitions, transitions) ==
  [BaseState EXCEPT !.type = "elicitation", !.hasElicitation = ~noSpec,
                    !.elicitation = ElicitationOf(type),
                    !.hasTransitions = ~noTransitions,
                    !.transitions = transitions]

\* A sampling state with a bare prompt
Sampling(prompt, noTransitions, transitions) ==
  [BaseState EXCEPT !.type = "sampling", !.prompt = prompt,
                    !.hasTransitions = ~noTransitions,
                    !.transitions = transitions]

\* A tool state
Tool(parameters, noTransitions, transitions) ==
  [BaseState EXCEPT !.type = "tool", !.tool = <<"t">>,
                    !.hasParameters = TRUE, !.parameters = parameters,
                    !.hasTransitions = ~noTransitions,
                    !.transitions = transitions]

\* A conditional state
Conditional(condition, onTrue, onFalse, noTransitions, transitions) ==
  [BaseState EXCEPT !.type = "conditional", !.condition = condition,
                    !.onTrue = onTrue, !.onFalse = onFalse,
                    !.hasTransitions = ~noTransitions,
                    !.transitions = transitions]

\* A parallel state that moves on to target
Parallel(branches, target) ==
  [BaseState EXCEPT !.type = "parallel", !.hasBranches = TRUE,
                    !.branches = branches, !.hasTransitions = TRUE,
                    !.transitions = Entry(DefaultKey, target)]

\* A loop state that moves on to target
Loop(condition, body, maxIterations, target) ==
  [BaseState EXCEPT !.type = "loop", !.condition = condition,
                    !.body = body, !.maxIterations = maxIterations,
                    !.declaresMaxIterations = maxIterations # 0,
                    !.hasTransitions = TRUE,
                    !.transitions = Entry(DefaultKey, target)]

Ok == <<"o", "k">>

X == <<"x">>

\* The keys of the transitions maps the model draws: 'default', exact
\* keys, a wildcard and a regular expression
TransitionKeys ==
  {DefaultKey, Ok, <<"f", "a", "l", "s", "e">>, <<"0">>, <<>>, <<"*">>,
   <<"/", "^", "o", "/">>}

\* The declarations of a transitions property: absent, empty, one key
\* (to b) or two keys in either order (the first to b, the second to c)
TransitionMaps ==
  {[absent |-> TRUE, map |-> <<>>], [absent |-> FALSE, map |-> <<>>]}
    \cup {[absent |-> FALSE, map |-> Entry(k, B)] : k \in TransitionKeys}
    \cup {[absent |-> FALSE, map |-> << <<k[1], B>>, <<k[2], C>> >>] :
            k \in {q \in TransitionKeys \X TransitionKeys : q[1] # q[2]}}

\* The first states of the workflows that exercise transition resolution
ResolutionStates(t) ==
  {Elicitation(type, FALSE, t.absent, t.map) :
     type \in {"confirm", "number", "text"}}
    \cup {Elicitation("text", TRUE, t.absent, t.map),
          Sampling(Ok, t.absent, t.map),
          Tool(Entry(X, StrV(Ok)), t.absent, t.map),
          Response(Ok, t.absent, t.map),
          Response(<<>>, t.absent, t.map),
          Conditional(<<>>, B, C, t.absent, t.map)}
    \cup {Conditional(X, onTrue, onFalse, t.absent, t.map) :
            onTrue \in {B, <<>>}, onFalse \in {C, <<>>}}

\* One state of every kind and every transitions map, followed by the
\* terminal states b and c
ResolutionWorkflows ==
  {Workflow(A, << <<A, st>>, <<B, Response(<<>>, TRUE, <<>>)>>,
                  <<C, Response(<<>>, TRUE, <<>>)>> >>, 2) :
     st \in UNION {ResolutionStates(t) : t \in TransitionMaps}}

\* The initial contexts of the resolution workflows: x true or false
ResolutionInputs == {Entry(X, Bool(TRUE)), Entry(X, Bool(FALSE))}

E == <<"e">>

R == <<"r">>

S == <<"s">>

T == <<"t">>

\* The token {e_response}: the output of the elicitation state e
EResponseToken == Token(ResponseKey(E))

\* The branch lists of the parallel workflows: one or two of the states
\* e, s, t, r, a missing state beside e, the parallel state itself, and
\* the empty list
BranchLists ==
  {<<x>> : x \in {E, S, T, R}}
    \cup {<<x, y>> : x \in {E, S, T, R}, y \in {E, S, T, R}}
    \cup {<<E, Z>>, <<A>>, <<>>}

\* A parallel state a over an elicitation state e, a sampling state s, a
\* tool state t and a response state r, the last two reading e's output
ParallelWorkflows ==
  {Workflow(A,
            << <<A, Parallel(branches, B)>>,
               <<B, Response(<<>>, TRUE, <<>>)>>,
               <<E, Elicitation("text", FALSE, TRUE, <<>>)>>,
               <<S, Sampling(EResponseToken, TRUE, <<>>)>>,
               <<T, Tool(Entry(X, StrV(EResponseToken)), TRUE, <<>>)>>,
               <<R, Response(EResponseToken, TRUE, <<>>)>> >>,
            1) :
     branches \in BranchLists}

\* The condition 'iteration < 2'
IterationBelowTwo == IterationKey \o <<" ", "<", " ", "2">>

\* A loop state a over a body that is a response state, an elicitation
\* state or the loop itself, under a condition on the iteration counter
\* or on the variable x, with an iteration cap of 1 or the default; the
\* elicitation body is capped whenever the condition never turns false
LoopShapes ==
  {[condition |-> IterationBelowTwo, body |-> body, cap |-> cap] :
     body \in {R, E, A}, cap \in {0, 1}}
    \cup {[condition |-> X, body |-> body, cap |-> cap] :
            body \in {R, A}, cap \in {0, 1}}
    \cup {[condition |-> X, body |-> E, cap |-> 1]}

\* The loop states of the shapes, and one that declares maxIterations: 0
LoopStates ==
  {Loop(l.condition, l.body, l.cap, B) : l \in LoopShapes}
    \cup {[Loop(X, R, 0, B) EXCEPT !.declaresMaxIterations = TRUE]}

LoopWorkflows ==
  {Workflow(A,
            << <<A, st>>,
               <<B, Response(<<>>, TRUE, <<>>)>>,
               <<E, Elicitation("text", FALSE, TRUE, <<>>)>>,
               <<R, Response(Ok, TRUE, <<>>)>> >>,
            1) :
     st \in LoopStates}

\* A conditional, parallel or loop state a whose onTrue, onFalse, branch
\* or body names b or the missing state z; b is an elicitation state
\* without transitions
ReferenceStates ==
  {Conditional(X, t[1], t[2], TRUE, <<>>) : t \in {B, Z} \X {B, Z}}
    \cup {Parallel(<<t>>, B) : t \in {B, Z}}
    \cup {Loop(X, t, 1, B) : t \in {B, Z}}

ReferenceWorkflows ==
  {Workflow(A, << <<A, st>>,
                  <<B, Elicitation("confirm", FALSE, TRUE, <<>>)>> >>, 2) :
     st \in ReferenceStates}

\* The elicitations of every type, required or not, with and without a
\* constraint on the value
ElicitationSpecs ==
  {[e EXCEPT !.required = r] :
     r \in {"true", "false", "unset"},
     e \in {ElicitationOf("text"),
            [ElicitationOf("text") EXCEPT !.pattern = <<"^", "o">>],
            ElicitationOf("number"),
            [ElicitationOf("number") EXCEPT !.hasMax = TRUE, !.max = 5],
            [ElicitationOf("number") EXCEPT !.hasMin = TRUE, !.min = 1],
            ElicitationOf("confirm"),
            ElicitationOf("select"),
            [ElicitationOf("select") EXCEPT !.options = <<Ok, <<"n", "o">> >>]}}

\* An elicitation state a followed by the terminal state b
ElicitationWorkflows ==
  {Workflow(A,
            << <<A, [Elicitation("text", FALSE, FALSE, Entry(DefaultKey, B))
                       EXCEPT !.elicitation = e]>>,
               <<B, Response(<<>>, TRUE, <<>>)>> >>,
            1) :
     e \in ElicitationSpecs}

\* The comparisons of x with the literal 5: the condition text, with and
\* without blanks around the operator, its operator and its literal
Comparisons ==
  {[text |-> X \o blank \o op \o blank \o <<"5">>, operator |-> op,
    literal |-> 5] :
     op \in {<<"=", "=">>, <<"!", "=">>, <<">">>, <<"<">>,
             <<">", "=">>, <<"<", "=">>},
     blank \in {<<>>, <<" ">>}}

\* A conditional state a on a comparison, moving on to the terminal
\* state b when it is true and to the terminal state c when it is false
ComparisonWorkflows ==
  {Workflow(A, << <<A, Conditional(c.text, B, C, TRUE, <<>>)>>,
                  <<B, Response(<<>>, TRUE, <<>>)>>,
                  <<C, Response(<<>>, TRUE, <<>>)>> >>, 2) :
     c \in Comparisons}

\* The initial contexts of the comparison workflows: x below, at and
\* above the literal
ComparisonInputs == {Entry(X, Num(n)) : n \in {4, 5, 6}}

Y == <<"y">>

Q == <<"q">>

\* The texts of the string parameter q: the tokens of x and y, alone,
\* together in either order, and repeated
ParameterTexts ==
  {Token(X), Token(X) \o Token(Y), Token(Y) \o Token(X),
   Token(Y) \o <<"-">> \o Token(Y)}

\* A tool state a with the string parameter q, followed by the terminal
\* state b
ToolWorkflows ==
  {Workflow(A, << <<A, Tool(Entry(Q, StrV(text)), FALSE, Entry(DefaultKey, B))>>,
                  <<B, Response(<<>>, TRUE, <<>>)>> >>, 1) :
     text \in ParameterTexts}

\* The initial contexts of the tool workflows: x alone, and x and y in
\* either order
ToolInputs ==
  {Entry(X, Num(1)),
   Entry(X, Num(1)) \o Entry(Y, Num(2)),
   Entry(Y, Num(2)) \o Entry(X, Num(1))}

Scenarios ==
  {[workflow |-> w, input |-> <<>>] : w \in ChainWorkflows \cup SelfLoopWorkflows}
    \cup {[workflow |-> w, input |-> i] :
            w \in ResolutionWorkflows, i \in ResolutionInputs}
    \cup {[workflow |-> w, input |-> <<>>] : w \in ParallelWorkflows}
    \cup {[workflow |-> w, input |-> i] :
            w \in LoopWorkflows, i \in ResolutionInputs}
    \cup {[workflow |-> w, input |-> i] :
            w \in ReferenceWorkflows, i \in ResolutionInputs}
    \cup {[workflow |-> w, input |-> <<>>] : w \in ElicitationWorkflows}
    \cup {[workflow |-> w, input |-> i] :
            w \in ComparisonWorkflows, i \in ComparisonInputs}
    \cup {[workflow |-> w, input |-> i] :
            w \in ToolWorkflows, i \in ToolInputs}

(***************************************************************************)
(* The fallback bridge (ElicitationWorkaround).  bridge is a record:       *)
(* pendingElicitations is the Map from ids to pending elicitations, in     *)
(* insertion order, each entry holding its elicitation and the number of   *)
(* the waiter whose resolve and reject it keeps; conversationHistory is    *)
(* the history array; waiters holds, for every promise createElicitation   *)
(* returned, in creation order, its id, the time it was created at, its    *)
(* timer, how it is settled and with what, and the counts of the resolve   *)
(* and reject calls made on it and of the deletions made for it; now is    *)
(* Date.now(); last is the last operation with what it was given and what  *)
(* it returned.                                                            *)
(***************************************************************************)
\* No operation yet
NoCall ==
  [op |-> "none", id |-> <<>>, response |-> Null, kind |-> "none",
   value |-> Null, error |-> "", waiter |-> 0,
   elicitation |-> ElicitationOf("text")]

\* The bridge after construction
EmptyBridge ==
  [pendingElicitations |-> <<>>, conversationHistory |-> <<>>,
   waiters |-> <<>>, now |-> 0, last |-> NoCall]

\* The id `elicit-${Date.now()}-${suffix}`
ElicitationId(now, suffix) == <<now, suffix>>

\* A delete that leaves the entry in the table
MapDelete_Nothing(table, id) == table

\* pendingElicitations.delete(id)
MapDelete(table, id) == SelectSeq(table, LAMBDA e : e[1] # id)

\* resolve(value) or reject(value) is called on the waiter w: a promise
\* settles on the first call and ignores the later ones
Settle(waiters, w, state, value) ==
  [waiters EXCEPT
     ![w] = [waiters[w] EXCEPT
               !.settles = @ + 1,
               !.state = IF waiters[w].state = "pending" THEN state ELSE @,
               !.value = IF waiters[w].state = "pending" THEN value ELSE @]]

\* The deletion of an entry is made for the waiter w
Deleted(waiters, w) ==
  [waiters EXCEPT ![w] = [waiters[w] EXCEPT !.deletes = @ + 1]]

\* createElicitation(elicitation) when Math.random() gives the suffix
createElicitation(b, elicitation, suffix) ==
  LET id == ElicitationId(b.now, suffix)
      w == Len(b.waiters) + 1
  IN [b EXCEPT
        !.pendingElicitations =
           Put(@, id, [elicitation |-> elicitation, waiter |-> w]),
        !.conversationHistory =
           Append(@, [id |-> id, type |-> elicitation.type,
                      hasResponse |-> FALSE, response |-> Null]),
        !.waiters =
           Append(@, [id |-> id, created |-> b.now, timer |-> "armed",
                      state |-> "pending", value |-> Null,
                      settles |-> 0, deletes |-> 0]),
        !.last = [NoCall EXCEPT !.op = "create", !.id = id,
                                !.kind = "created", !.waiter = w,
                                !.elicitation = elicitation]]

\* The callback of the timer of the waiter w
TimerCallback(b, w) ==
  LET id == b.waiters[w].id
      fired == [b EXCEPT !.waiters[w].timer = "fired",
                         !.last = [NoCall EXCEPT !.op = "timer", !.id = id,
                                                 !.kind = "timer",
                                                 !.waiter = w]]
  IN IF HasKey(b.pendingElicitations, id)
     THEN [fired EXCEPT
             !.pendingElicitations = MapDelete(@, id),
             !.waiters = Deleted(Settle(@, w, "rejected",
                                        StrV(<<"t", "i", "m", "e", "o", "u", "t">>)),
                                 w)]
     ELSE fired

\* The bridge's validateResponse(response, elicitation): whether the
\* response is valid, and the error when it is not
WorkaroundValidateResponse(response, elicitation) ==
  LET num == ToNumber(response)
      invalid(error) == [valid |-> FALSE, error |-> error]
  IN CASE elicitation.type = "text" /\ response.t # "str" ->
            invalid("Response must be a string")
       [] /\ elicitation.type = "text" /\ response.t = "str"
          /\ elicitation.pattern # <<>>
          /\ ~RegexTest(elicitation.pattern, response.s) ->
            invalid("Response does not match pattern")
       [] elicitation.type = "number" /\ num.nan ->
            invalid("Response must be a number")
       [] /\ elicitation.type = "number" /\ ~num.nan
          /\ elicitation.hasMin /\ num.n < elicitation.min ->
            invalid("Response must be >= min")
       [] /\ elicitation.type = "number" /\ ~num.nan
          /\ ~(elicitation.hasMin /\ num.n < elicitation.min)
          /\ elicitation.hasMax /\ num.n > elicitation.max ->
            invalid("Response must be <= max")
       [] /\ elicitation.type = "confirm"
          /\ ToLowerCase(JSString(response)) \notin ConfirmWords ->
            invalid("Response must be yes/no")
       [] /\ elicitation.type = "select"
          /\ ~\E i \in 1..Len(elicitation.options) :
                elicitation.options[i] = JSString(response)
          /\ ~IsOptionIndex(response, elicitation) ->
            invalid("Response must be one of the options")
       [] OTHER -> [valid |-> TRUE, error |-> ""]

\* The bridge's transformResponse(response, elicitation)
WorkaroundTransformResponse(response, elicitation) ==
  CASE elicitation.type = "number" ->
         IF ToNumber(response).nan THEN NaNV ELSE Num(ToNumber(response).n)
    [] elicitation.type = "confirm" ->
         Bool(ToLowerCase(JSString(response)) \in YesWords)
    [] elicitation.type = "select" ->
         IF IsOptionIndex(response, elicitation)
         THEN StrV(elicitation.options[ToNumber(response).n])
         ELSE response
    [] OTHER -> response

\* A recording that takes the answered entries out of the history
RecordResponse_Removing(conversationHistory, id, transformed) ==
  SelectSeq(conversationHistory, LAMBDA h : h.id # id)

\* conversationHistory.find(h => h.id === id) gets the response
RecordResponse(conversationHistory, id, transformed) ==
  IF \E i \in 1..Len(conversationHistory) : conversationHistory[i].id = id
  THEN LET h == CHOOSE i \in 1..Len(conversationHistory) :
                  /\ conversationHistory[i].id = id
                  /\ \A j \in 1..(i - 1) : conversationHistory[j].id # id
       IN [conversationHistory EXCEPT
             ![h] = [@ EXCEPT !.hasResponse = TRUE, !.response = transformed]]
  ELSE conversationHistory

\* A refusal that also drops the pending entry
RejectResponse_Dropping(b, id, response, error) ==
  [b EXCEPT !.pendingElicitations = MapDelete(@, id),
            !.last = [NoCall EXCEPT
                        !.op = "respond", !.id = id, !.response = response,
                        !.kind = "invalid", !.error = error,
                        !.waiter = Get(b.pendingElicitations, id).waiter,
                        !.elicitation =
                           Get(b.pendingElicitations, id).elicitation]]

\* handleResponse on a response that is not valid: the error is returned
RejectResponse(b, id, response, error) ==
  [b EXCEPT !.last = [NoCall EXCEPT
                        !.op = "respond", !.id = id, !.response = response,
                        !.kind = "invalid", !.error = error,
                        !.waiter = Get(b.pendingElicitations, id).waiter,
                        !.elicitation =
                           Get(b.pendingElicitations, id).elicitation]]

\* An acceptance that leaves the entry pending
AcceptResponse_KeepsEntry(b, id, response) ==
  LET pending == Get(b.pendingElicitations, id)
      transformed == WorkaroundTransformResponse(response, pending.elicitation)
  IN [b EXCEPT
        !.conversationHistory = RecordResponse(@, id, transformed),
        !.waiters = Settle(@, pending.waiter, "resolved", transformed),
        !.last = [NoCall EXCEPT
                    !.op = "respond", !.id = id, !.response = response,
                    !.kind = "accepted", !.value = transformed,
                    !.waiter = pending.waiter,
                    !.elicitation = pending.elicitation]]

\* handleResponse on a valid response
AcceptResponse(b, id, response) ==
  LET pending == Get(b.pendingElicitations, id)
      transformed == WorkaroundTransformResponse(response, pending.elicitation)
  IN [b EXCEPT
        !.conversationHistory = RecordResponse(@, id, transformed),
        !.waiters = Deleted(Settle(@, pending.waiter, "resolved", transformed),
                            pending.waiter),
        !.pendingElicitations = MapDelete(@, id),
        !.last = [NoCall EXCEPT
                    !.op = "respond", !.id = id, !.response = response,
                    !.kind = "accepted", !.value = transformed,
                    !.waiter = pending.waiter,
                    !.elicitation = pending.elicitation]]

\* handleResponse(id, response), called for respond_to_elicitation: an
\* id that is not pending throws 'not found'
handleResponse(b, id, response) ==
  IF ~HasKey(b.pendingElicitations, id)
  THEN [b EXCEPT !.last = [NoCall EXCEPT !.op = "respond", !.id = id,
                                         !.response = response,
                                         !.kind = "notFound"]]
  ELSE LET validation ==
             WorkaroundValidateResponse(response,
                                        Get(b.pendingElicitations, id).elicitation)
       IN IF ~validation.valid
          THEN RejectResponse(b, id, response, validation.error)
          ELSE AcceptResponse(b, id, response)

(***************************************************************************)
(* ADFRuntimeWithFallback.  runtime is a record: tools tells whether the   *)
(* agent declares tools, clientElicitation whether the connected client    *)
(* supports elicitation, useElicitationWorkaround is the field of that     *)
(* name, callToolHandler is the handler the server holds for tools/call    *)
(* (the one registered last), delivery is how the last elicitation was     *)
(* delivered and lastTool is the tools/call request made last, when no     *)
(* elicitation was executed since, with what the pending table held for    *)
(* its id.                                                                 *)
(***************************************************************************)
NoToolCall ==
  [name |-> "none", id |-> <<>>, response |-> Null, waiter |-> 0,
   elicitation |-> ElicitationOf("text"), text |-> ""]

\* No runtime was constructed
NoRuntime ==
  [tools |-> FALSE, clientElicitation |-> FALSE,
   useElicitationWorkaround |-> FALSE, callToolHandler |-> "none",
   delivery |-> "none", lastTool |-> NoToolCall]

\* The constructor and setupHandlers: the bridge registers its handlers
\* first, and the runtime registers its own tools/call handler over it
\* when the agent declares tools
setupHandlers(tools, clientElicitation) ==
  [NoRuntime EXCEPT
     !.tools = tools,
     !.clientElicitation = clientElicitation,
     !.useElicitationWorkaround = TRUE,
     !.callToolHandler = IF tools THEN "runtime" ELSE "workaround"]

\* The names of the bridge's tools
WorkaroundTools == {"respond_to_elicitation", "get_elicitation_guidance"}

\* What the tools/call request does to the bridge: the bridge's own
\* handler passes a response to handleResponse, the runtime's handler
\* answers 'Handled by elicitation workaround' and calls nothing
CallToolBridge(r, b, name, id, response) ==
  IF r.callToolHandler = "workaround" /\ name = "respond_to_elicitation"
  THEN handleResponse(b, id, response)
  ELSE b

\* The runtime after the tools/call request
CallToolRuntime(r, b, name, id, response) ==
  [r EXCEPT
     !.lastTool =
        [name |-> name, id |-> id, response |-> response,
         waiter |-> IF HasKey(b.pendingElicitations, id)
                    THEN Get(b.pendingElicitations, id).waiter ELSE 0,
         elicitation |-> IF HasKey(b.pendingElicitations, id)
                         THEN Get(b.pendingElicitations, id).elicitation
                         ELSE ElicitationOf("text"),
         text |-> IF r.callToolHandler = "runtime"
                  THEN "Handled by elicitation workaround"
                  ELSE "handled"]]

(***************************************************************************)
(* The XState workflow machine (WorkflowStateMachine).  machine is a       *)
(* record: value is the state the actor is in, status is "built" before    *)
(* start, "active", "transient" while an always transition of a            *)
(* conditional state is pending, "done" in a final state and "error"       *)
(* after a failure; variables and history are the machine's context; last  *)
(* is the last thing that happened to it.                                  *)
(***************************************************************************)
\* Nothing happened yet
NoMachineEvent == [op |-> "none", from |-> <<>>, output |-> Null, event |-> <<>>]

\* No machine
NoMachine ==
  [value |-> <<>>, status |-> "none", variables |-> <<>>, history |-> <<>>,
   last |-> NoMachineEvent]

ErrorState == <<"e", "r", "r", "o", "r">>

\* A resolution that looks the outcome up among the keys
resolveTransition_ByOutcome(config, output) ==
  IF ~config.hasTransitions THEN <<>>
  ELSE TargetOf(config.transitions, JSString(output))

\* resolveTransition(config.transitions), for a service that completed
\* with output: the target of the first key, '' for undefined
resolveTransition(config, output) ==
  IF ~config.hasTransitions THEN <<>>
  ELSE LET entries == ObjectEntries(config.transitions)
       IN IF Len(entries) > 0 THEN entries[1][2] ELSE <<>>

\* buildState(name, config): the service the state invokes, whether it is
\* final, the targets of its always transitions and its event map
buildState(config) ==
  [invoke |-> CASE config.type = "elicitation" -> "elicitation"
                [] config.type = "sampling"    -> "sampling"
                [] config.type = "tool"        -> "executeTool"
                [] OTHER                       -> "none",
   final |-> config.type = "response",
   always |-> IF config.type = "conditional"
              THEN <<IF config.onTrue # <<>> THEN config.onTrue ELSE ErrorState,
                     IF config.onFalse # <<>> THEN config.onFalse ELSE ErrorState>>
              ELSE <<>>,
   on |-> IF config.hasTransitions /\ config.type # "conditional"
          THEN config.transitions ELSE <<>>]

\* The machine enters the state id: the entry action records it; a target
\* that is no state of the machine is an error
EnterState(m, id) ==
  IF ~HasState(workflow, id)
  THEN [m EXCEPT !.status = "error"]
  ELSE LET node == buildState(StateOf(workflow, id))
       IN [m EXCEPT !.value = id,
                    !.history = Append(@, id),
                    !.status = IF node.final THEN "done"
                               ELSE IF node.always # <<>> THEN "transient"
                               ELSE "active"]

\* The property key of index i - 1
IndexKey(i) == NatStr(i - 1)

\* Object.assign(target, output) for the outputs of the model: a string
\* gives one property per character, a primitive none
RECURSIVE AssignFrom(_, _, _)
AssignFrom(target, output, i) ==
  IF output.t # "str" \/ i > Len(output.s) THEN target
  ELSE AssignFrom(Put(target, IndexKey(i), StrV(<<output.s[i]>>)), output, i + 1)

\* The updateContext action
updateContext(object, output) ==
  IF Truthy(output) THEN AssignFrom(object, output, 1) ELSE object

\* The invoked service completed: onDone runs updateContext and, when it
\* has a target, the machine enters it
ServiceDone(m, output) ==
  LET config == StateOf(workflow, m.value)
      target == resolveTransition(config, output)
      m1 == [m EXCEPT !.variables = updateContext(@, output),
                      !.last = [op |-> "done", from |-> m.value,
                                output |-> output, event |-> <<>>]]
  IN IF target = <<>> THEN m1 ELSE EnterState(m1, target)

\* send(event): the event map of the state decides
SendEvent(m, event) ==
  LET node == buildState(StateOf(workflow, m.value))
      m1 == [m EXCEPT !.last = [op |-> "send", from |-> m.value,
                                output |-> Null, event |-> event]]
  IN IF HasKey(node.on, event) /\ Get(node.on, event) # <<>>
     THEN EnterState(m1, Get(node.on, event))
     ELSE m1

\* The always transitions of a conditional state: the first whose guard
\* holds is taken
TakeAlways(m, guard) ==
  LET node == buildState(StateOf(workflow, m.value))
      m1 == [m EXCEPT !.last = [op |-> "always", from |-> m.value,
                                output |-> Bool(guard), event |-> <<>>]]
  IN EnterState(m1, IF guard THEN node.always[1] ELSE node.always[2])

Init ==
  \E sc \in Scenarios :
    /\ workflow = sc.workflow
    /\ input = sc.input
    /\ pc = "validate"
    /\ currentState = <<>>
    /\ variables = <<>>
    /\ history = <<>>
    /\ steps = 0
    /\ attempts = 0
    /\ frames = NoFrames
    /\ lastResult = Null
    /\ lastNext = <<>>
    /\ outcome = "none"
    /\ bridge = EmptyBridge
    /\ runtime = NoRuntime
    /\ machine = NoMachine

Spec == Init /\ [][Next]_vars

(***************************************************************************)
(* The fallback bridge on its own: elicitations are created, answered      *)
(* through respond_to_elicitation and timed out while the clock advances.  *)
(***************************************************************************)
MaxElicitations == 2

MaxNow == 1

\* What Math.random().toString(36).substring(7) gives
RandomSuffixes == {"k", "m"}

\* The elicitations that are created
BridgeElicitations ==
  {ElicitationOf("confirm"),
   [ElicitationOf("number") EXCEPT !.hasMax = TRUE, !.max = 5]}

\* The ids respond_to_elicitation is called with: every id that was
\* given out, and one that never was
RespondIds(b) ==
  {b.waiters[w].id : w \in 1..Len(b.waiters)}
    \cup {ElicitationId(0, "none")}

\* The responses respond_to_elicitation is called with: each is valid
\* for some of the elicitations and not for others
BridgeResponses ==
  {StrV(<<"y", "e", "s">>), StrV(<<"2">>), StrV(<<"7">>)}

BridgeInit ==
  /\ workflow = Workflow(A, <<>>, 1)
  /\ input = <<>>
  /\ pc = "idle"
  /\ currentState = <<>>
  /\ variables = <<>>
  /\ history = <<>>
  /\ steps = 0
  /\ attempts = 0
  /\ frames = NoFrames
  /\ lastResult = Null
  /\ lastNext = <<>>
  /\ outcome = "none"
  /\ bridge = EmptyBridge
  /\ runtime = NoRuntime
  /\ machine = NoMachine

\* createElicitation is called
CreateElicitation ==
  /\ Len(bridge.waiters) < MaxElicitations
  /\ \E e \in BridgeElicitations, suffix \in RandomSuffixes :
       bridge' = createElicitation(bridge, e, suffix)
  /\ UNCHANGED <<executorVars, runtime, machine>>

\* The tool respond_to_elicitation is called
RespondToElicitation ==
  /\ \E id \in RespondIds(bridge), response \in BridgeResponses :
       bridge' = handleResponse(bridge, id, response)
  /\ UNCHANGED <<executorVars, runtime, machine>>

\* The timer of a waiter fires, some time after it was set
TimerFires ==
  /\ \E w \in 1..Len(bridge.waiters) :
       /\ bridge.waiters[w].timer = "armed"
       /\ bridge.now > bridge.waiters[w].created
       /\ bridge' = TimerCallback(bridge, w)
  /\ UNCHANGED <<executorVars, runtime, machine>>

\* Time passes
Tick ==
  /\ bridge.now < MaxNow
  /\ bridge' = [bridge EXCEPT !.now = @ + 1]
  /\ UNCHANGED <<executorVars, runtime, machine>>

BridgeNext ==
  \/ CreateElicitation
  \/ RespondToElicitation
  \/ TimerFires
  \/ Tick

BridgeSpec == BridgeInit /\ [][BridgeNext]_vars

(***************************************************************************)
(* The fallback bridge asking select questions: validateResponse and       *)
(* transformResponse are applied to responses of every kind.               *)
(***************************************************************************)
\* The select elicitations that are created: one, two and no options,
\* and two options whose texts are digit strings
SelectElicitations ==
  {[ElicitationOf("select") EXCEPT !.options = o] :
     o \in {<<Ok>>, <<Ok, <<"n", "o">> >>, <<>>, << <<"2">>, <<"1">> >>}}

\* The responses given to them: an option, the indexes 0 to 3 as decimal
\* strings, a padded index, a word that is no option, the boolean true
\* and null
SelectResponses ==
  {StrV(Ok), StrV(<<"0">>), StrV(<<"1">>), StrV(<<"2">>), StrV(<<"3">>),
   StrV(<<" ", "2">>), StrV(<<"z", "z">>), Bool(TRUE), Null}

\* createElicitation is called for a select elicitation
CreateSelect ==
  /\ Len(bridge.waiters) < MaxElicitations
  /\ \E e \in SelectElicitations, suffix \in RandomSuffixes :
       bridge' = createElicitation(bridge, e, suffix)
  /\ UNCHANGED <<executorVars, runtime, machine>>

\* The tool respond_to_elicitation is called
RespondToSelect ==
  /\ \E id \in RespondIds(bridge), response \in SelectResponses :
       bridge' = handleResponse(bridge, id, response)
  /\ UNCHANGED <<executorVars, runtime, machine>>

SelectNext ==
  \/ CreateSelect
  \/ RespondToSelect

SelectSpec == BridgeInit /\ [][SelectNext]_vars

RuntimeInit ==
  /\ workflow = Workflow(A, <<>>, 1)
  /\ input = <<>>
  /\ pc = "idle"
  /\ currentState = <<>>
  /\ variables = <<>>
  /\ history = <<>>
  /\ steps = 0
  /\ attempts = 0
  /\ frames = NoFrames
  /\ lastResult = Null
  /\ lastNext = <<>>
  /\ outcome = "none"
  /\ bridge = EmptyBridge
  /\ machine = NoMachine
  /\ \E tools \in BOOLEAN, clientElicitation \in BOOLEAN :
       runtime = setupHandlers(tools, clientElicitation)

\* executeElicitation(elicitation)
ExecuteElicitation ==
  /\ Len(bridge.waiters) < MaxElicitations
  /\ \E e \in BridgeElicitations, suffix \in RandomSuffixes :
       IF runtime.useElicitationWorkaround
       THEN /\ bridge' = createElicitation(bridge, e, suffix)
            /\ runtime' = [runtime EXCEPT !.delivery = "fallback",
                                          !.lastTool = NoToolCall]
       ELSE /\ bridge' = bridge
            /\ runtime' = [runtime EXCEPT !.delivery = "native",
                                          !.lastTool = NoToolCall]
  /\ UNCHANGED <<executorVars, machine>>

\* The client sends a tools/call request for one of the bridge's tools
CallTool ==
  /\ \E name \in WorkaroundTools, id \in RespondIds(bridge),
        response \in BridgeResponses :
       /\ bridge' = CallToolBridge(runtime, bridge, name, id, response)
       /\ runtime' = CallToolRuntime(runtime, bridge, name, id, response)
  /\ UNCHANGED <<executorVars, machine>>

RuntimeNext ==
  \/ ExecuteElicitation
  \/ CallTool

RuntimeSpec == RuntimeInit /\ [][RuntimeNext]_vars

(***************************************************************************)
(* step on its own: it is called once with a context of the caller's       *)
(* choice.  input is that context, pc goes from "called" over "step" to    *)
(* "returned" or "rejected", and outcome is then the failure.              *)
(***************************************************************************)
\* The failure step builds for a missing state
StateNotFound(id) ==
  [tag |-> "StateTransitionError", fromState |-> id, toState |-> "unknown",
   reason |-> <<"State '", id, "' not found in workflow">>]

\* The failure step ends with: the one it built for a missing state, or
\* the failure of executeState, of which the tag is kept
StepFailure(f) ==
  IF f.err = "StateTransitionError" THEN StateNotFound(f.state)
  ELSE [tag |-> f.err]

\* Workflows of a state a followed by the terminal state b
StepWorkflows ==
  {Workflow(A, << <<A, st>>, <<B, Response(Ok, TRUE, <<>>)>> >>, 1) :
     st \in {Elicitation("confirm", FALSE, FALSE, Entry(DefaultKey, B)),
             Sampling(Ok, FALSE, Entry(DefaultKey, B)),
             Tool(Entry(Q, StrV(Token(X))), FALSE, Entry(DefaultKey, Z)),
             Conditional(X, B, Z, TRUE, <<>>)}}

\* The contexts step is called with: the current state is a state of the
\* workflow, a name the workflow does not have, or a name every object
\* inherits
StepContexts ==
  {[currentState |-> id, variables |-> v, history |-> h] :
     id \in {A, B, Z, Constructor},
     v \in {<<>>, Entry(X, Bool(TRUE))},
     h \in {<<>>, <<HistoryEntry(B, <<>>)>>}}

StepInit ==
  \E w \in StepWorkflows, context \in StepContexts :
    /\ workflow = w
    /\ input = context
    /\ pc = "called"
    /\ currentState = context.currentState
    /\ variables = context.variables
    /\ history = context.history
    /\ steps = 0
    /\ attempts = 0
    /\ frames = NoFrames
    /\ lastResult = Null
    /\ lastNext = <<>>
    /\ outcome = "none"
    /\ bridge = EmptyBridge
    /\ runtime = NoRuntime
    /\ machine = NoMachine

\* step looks the current state up
StepCalled ==
  /\ pc = "called"
  /\ frames' = BeginStep
  /\ pc' = "step"
  /\ attempts' = 1
  /\ UNCHANGED <<machine, runtime, bridge, workflow, input, currentState, variables,
                 history, steps, lastResult, lastNext, outcome>>

\* executeState returned: step returns the new context
StepResolves ==
  /\ pc = "step"
  /\ frames[Root].pc = "done"
  /\ currentState' = IF frames[Root].next # <<>> THEN frames[Root].next
                     ELSE currentState
  /\ history' = Append(history, HistoryEntry(currentState, variables))
  /\ lastResult' = frames[Root].result
  /\ lastNext' = frames[Root].next
  /\ pc' = "returned"
  /\ frames' = NoFrames
  /\ UNCHANGED <<machine, runtime, bridge, workflow, input, variables, steps,
                 attempts, outcome>>

\* step fails
StepRejects ==
  /\ pc = "step"
  /\ frames[Root].pc = "fail"
  /\ outcome' = StepFailure(frames[Root])
  /\ pc' = "rejected"
  /\ frames' = NoFrames
  /\ UNCHANGED <<machine, runtime, bridge, workflow, input, currentState, variables,
                 history, steps, attempts, lastResult, lastNext>>

StepNext ==
  \/ StepCalled
  \/ Advance
  \/ CallSucceeds
  \/ CallFails
  \/ SamplingRetry
  \/ StepTimeout
  \/ StepResolves
  \/ StepRejects

StepSpec == StepInit /\ [][StepNext]_vars

(***************************************************************************)
(* The workflow machine on its own: it is built for a workflow, started,   *)
(* and then its services complete or fail and events are sent to it.       *)
(***************************************************************************)
\* The most states the machine enters in a run of the model
MaxEntered == 4

No == <<"n", "o">>

\* Workflows whose first state invokes a service and maps the outcomes
\* 'ok' and 'no' to b and c, in either order, or is a conditional state
MachineWorkflows ==
  {Workflow(A, << <<A, st>>,
                  <<B, Response(Ok, TRUE, <<>>)>>,
                  <<C, Sampling(Ok, FALSE, Entry(Ok, A))>> >>, 1) :
     st \in {Elicitation("select", FALSE, FALSE, Entry(Ok, B) \o Entry(No, C)),
             Elicitation("select", FALSE, FALSE, Entry(No, C) \o Entry(Ok, B)),
             Sampling(Ok, FALSE, Entry(Ok, C)),
             Tool(<<>>, TRUE, <<>>),
             Conditional(X, C, <<>>, TRUE, <<>>)}}

\* What a service completes with
ServiceOutputs == {StrV(Ok), StrV(No), Null}

\* The events sent to the machine
MachineEvents == {Ok, No, X}

\* The machine after its construction
MachineInit ==
  /\ workflow \in MachineWorkflows
  /\ input = <<>>
  /\ pc = "idle"
  /\ currentState = <<>>
  /\ variables = <<>>
  /\ history = <<>>
  /\ steps = 0
  /\ attempts = 0
  /\ frames = NoFrames
  /\ lastResult = Null
  /\ lastNext = <<>>
  /\ outcome = "none"
  /\ bridge = EmptyBridge
  /\ runtime = NoRuntime
  /\ machine = [NoMachine EXCEPT !.status = "built"]

\* start(): the actor starts in the initial state
MachineStart ==
  /\ machine.status = "built"
  /\ machine' = EnterState([machine EXCEPT !.last.op = "start"],
                           workflow.initial)
  /\ UNCHANGED <<executorVars, bridge, runtime>>

\* The service invoked by the state completes
MachineServiceDone ==
  /\ machine.status = "active"
  /\ Len(machine.history) < MaxEntered
  /\ buildState(StateOf(workflow, machine.value)).invoke # "none"
  /\ \E output \in ServiceOutputs : machine' = ServiceDone(machine, output)
  /\ UNCHANGED <<executorVars, bridge, runtime>>

\* The service invoked by the state fails: no onError is declared
MachineServiceFails ==
  /\ machine.status = "active"
  /\ buildState(StateOf(workflow, machine.value)).invoke # "none"
  /\ machine' = [machine EXCEPT !.status = "error",
                                !.last = [NoMachineEvent EXCEPT
                                            !.op = "fail",
                                            !.from = machine.value]]
  /\ UNCHANGED <<executorVars, bridge, runtime>>

\* send(event)
MachineSend ==
  /\ machine.status = "active"
  /\ Len(machine.history) < MaxEntered
  /\ \E event \in MachineEvents : machine' = SendEvent(machine, event)
  /\ UNCHANGED <<executorVars, bridge, runtime>>

\* The guard of a conditional state is evaluated
MachineAlways ==
  /\ machine.status = "transient"
  /\ \E guard \in BOOLEAN : machine' = TakeAlways(machine, guard)
  /\ UNCHANGED <<executorVars, bridge, runtime>>

MachineNext ==
  \/ MachineStart
  \/ MachineServiceDone
  \/ MachineServiceFails
  \/ MachineSend
  \/ MachineAlways

MachineSpec == MachineInit /\ [][MachineNext]_vars


(***************************************************************************)
(* The end of a run.                                                       *)
(***************************************************************************)
\* C1: when execute ends at a terminal response state, the history holds
\* one entry for every state visited - the states that were stepped and
\* the terminal state itself, the last entry - and currentState is the
\* terminal state
C1_TerminalStateRecorded ==
  (pc = "done" /\ outcome = "terminal") =>
     /\ IsTerminal(StateOf(workflow, currentState))
     /\ Len(history) = steps + 1
     /\ history[Len(history)].state = currentState

\* A run a -> b that ended at the terminal state b
C1_StartEndRun ==
  /\ pc = "done"
  /\ outcome = "terminal"
  /\ steps = 1
  /\ workflow.initial = A
  /\ currentState = B

\* C2: validateWorkflow accepts a workflow exactly when the initial state
\* and every transitions target, onTrue, onFalse, branch and body it
\* declares name existing states
C2_ValidIffReferencesExist ==
  LET exists(id) == HasState(workflow, id)
      declared(id) == id # <<>>
      sound(st) ==
        /\ \A t \in TransitionTargets(st) : exists(t)
        /\ declared(st.onTrue) => exists(st.onTrue)
        /\ declared(st.onFalse) => exists(st.onFalse)
        /\ \A i \in 1..Len(st.branches) : exists(st.branches[i])
        /\ declared(st.body) => exists(st.body)
      allExist ==
        /\ exists(workflow.initial)
        /\ \A i \in 1..Len(workflow.states) : sound(workflow.states[i][2])
  IN pc # "validate" => ((outcome # "ValidationFailed") <=> allExist)

\* A workflow rejected for a transitions target that names no state
C2_Rejected ==
  /\ pc = "failed"
  /\ outcome = "ValidationFailed"
  /\ HasState(workflow, workflow.initial)

\* C4: a workflow whose first state is a response state that moves to
\* itself ends only by exhausting the budget, and a run that ends by
\* exhausting the budget has taken exactly maxSteps steps and holds
\* exactly maxSteps history entries, with no executeState call left
C4_ExactlyMaxSteps ==
  LET first == StateOf(workflow, workflow.initial)
      selfLoop ==
        /\ first.type = "response"
        /\ first.hasTransitions
        /\ TargetOf(first.transitions, DefaultKey) = workflow.initial
      maxSteps == IF workflow.declaresMaxSteps THEN workflow.maxSteps
                  ELSE DefaultMaxSteps
  IN pc = "done" =>
       /\ selfLoop => outcome = "budget"
       /\ outcome = "budget" =>
            /\ steps = maxSteps
            /\ Len(history) = maxSteps
            /\ frames = NoFrames

\* A self-transitioning state stopped at the largest explicit budget
C4_BudgetExhausted ==
  /\ pc = "done"
  /\ outcome = "budget"
  /\ workflow.maxSteps = MaxStepsBound
  /\ TargetOf(StateOf(workflow, A).transitions, DefaultKey) = A
  /\ Len(history) = MaxStepsBound

\* C5: the history never holds more than maxSteps entries (1000 when
\* maxSteps is unset), however the run goes on or ends
C5_HistoryWithinBudget == Len(history) <= EffectiveMaxSteps(workflow)

\* A run stopped by stuck detection with the history at the budget
C5_StuckAtBudget ==
  /\ pc = "done"
  /\ outcome = "stuck"
  /\ Len(history) = EffectiveMaxSteps(workflow)

C6_NoMatchHalts ==
  LET id == history[Len(history)].state
  IN (Len(history) > 0 /\ lastNext = <<>>
        /\ StateOf(workflow, id).hasTransitions
        /\ Len(StateOf(workflow, id).transitions) > 0)
       => /\ currentState = id
          /\ pc = "done"
          /\ outcome = "stuck"

C8_ExactKeyWins ==
  LET st == StateOf(workflow, history[Len(history)].state)
      dictated ==
        /\ st.type = "conditional"
        /\ st.condition # <<>>
        /\ (IF lastResult = Bool(TRUE) THEN st.onTrue ELSE st.onFalse) # <<>>
  IN (Len(history) > 0 /\ ~dictated /\ st.hasTransitions
        /\ ~HasKey(st.transitions, DefaultKey)
        /\ HasKey(st.transitions, JSString(lastResult)))
       => currentState = Get(st.transitions, JSString(lastResult))

(***************************************************************************)
(* Parallel states.                                                        *)
(***************************************************************************)
\* C9: a branch of a parallel state sees the variables as they were when
\* the parallel state started: whatever it reads from context.variables,
\* no write of a sibling branch is in it
C9_BranchesIsolated ==
  \A q \in DOMAIN frames :
    LET p == SubSeq(q, 1, Len(q) - 1)
    IN (Len(q) > 0 /\ frames[p].pc = "join" /\ frames[q].hasRead)
         => frames[q].view = frames[p].entry

\* C10: while a branch of a parallel state has not settled, the variables
\* of the parent context are what they were when the parallel state
\* started
C10_MergeOnlyAfterJoin ==
  \A p \in DOMAIN frames :
    (frames[p].pc = "join"
       /\ \E q \in ChildPaths(Machine, p) : frames[q].pc \notin {"done", "fail"})
      => variables = frames[p].entry

(***************************************************************************)
(* Failures, retries and the history.                                      *)
(***************************************************************************)
\* C11: when an attempt of step fails, the context it was given is
\* unchanged: the variables are what they were when the attempt called
\* executeState, so the retry starts from the same variables
C11_FailedStepLeavesContext ==
  (pc = "step" /\ frames[Root].pc = "fail")
    => variables = frames[Root].entry

\* A failed attempt of a step on a parallel or loop state
C11_NestedStepFailed ==
  /\ pc = "step"
  /\ frames[Root].pc = "fail"
  /\ StateOf(workflow, currentState).type \in {"parallel", "loop"}

\* C12: when execute aborts because the retries of a step are exhausted,
\* the failure it returns names the state at which execution stopped and
\* carries the history accumulated so far
C12_FailureCarriesStateAndHistory ==
  (pc = "failed" /\ outcome # "ValidationFailed")
    => /\ StateField(outcome) # ""
       /\ "history" \in ErrorFields(outcome)

\* A run aborted after the last retry of a step that had steps before it
C12_AbortedAfterRetries ==
  /\ pc = "failed"
  /\ outcome = "ElicitationError"
  /\ attempts = MaxRetries + 1
  /\ Len(history) > 0

\* C13: a history entry is recorded before its state executes: the entry
\* of a state's first execution holds none of the keys under which that
\* state stores its output
C13_SnapshotBeforeExecution ==
  \A i \in 1..Len(history) :
    LET id == history[i].state
        snapshot == history[i].variables
    IN (\A j \in 1..(i - 1) : history[j].state # id)
         => /\ ~HasKey(snapshot, ResponseKey(id))
            /\ ~HasKey(snapshot, CompletionKey(id))
            /\ ~HasKey(snapshot, ResultKey(id))
            /\ ~HasKey(snapshot, ResultsKey(id))

\* The entry of an elicitation state whose response was stored
C13_ElicitationRecorded ==
  /\ Len(history) > 0
  /\ StateOf(workflow, history[1].state).type = "elicitation"
  /\ HasKey(variables, ResponseKey(history[1].state))

\* C14: within one attempt of step, createCompletion calls the model at
\* most once for a sampling state: a model call that timed out is retried
\* only by the retry of step
C14_OneModelCallPerAttempt ==
  \A p \in DOMAIN frames :
    frames[p].call = "sampling" => frames[p].tries <= 1

\* A sampling state waiting for its first model call
C14_ModelCalled ==
  /\ pc = "step"
  /\ frames[Root].pc = "await"
  /\ frames[Root].call = "sampling"
  /\ frames[Root].tries = 1

\* C15: requestElicitation returns a value only for a raw response that
\* validateResponse accepted, so every value an elicitation state stores
\* under its _response key is a validated one
C15_OnlyValidatedStored ==
  \A p \in DOMAIN frames :
    LET st == StateOf(workflow, frames[p].state)
    IN (frames[p].pc = "done" /\ st.type = "elicitation" /\ st.hasElicitation)
         => validateResponse(frames[p].raw, st.elicitation)

\* An elicitation state that stored its response
C15_ResponseStored ==
  /\ pc = "step"
  /\ frames[Root].pc = "done"
  /\ StateOf(workflow, currentState).type = "elicitation"
  /\ StateOf(workflow, currentState).elicitation.required = "false"
  /\ HasKey(variables, ResponseKey(currentState))

\* C16: a condition of the form '<var> <op> <literal>' over a numeric
\* variable is true exactly when the relation the operator names holds
\* between the variable's value and the literal, for each of ==, !=, >,
\* <, >= and <=
C16_ComparisonDecides ==
  \A c \in Comparisons :
    LET st == StateOf(workflow, currentState)
        x == Get(variables, X).n
        holds == CASE c.operator = <<"=", "=">> -> x = c.literal
                   [] c.operator = <<"!", "=">> -> x # c.literal
                   [] c.operator = <<">">> -> x > c.literal
                   [] c.operator = <<"<">> -> x < c.literal
                   [] c.operator = <<">", "=">> -> x >= c.literal
                   [] c.operator = <<"<", "=">> -> x <= c.literal
    IN (/\ pc = "step"
        /\ frames[Root].pc = "done"
        /\ st.type = "conditional"
        /\ st.condition = c.text)
         => (frames[Root].result.b <=> holds)

\* The condition 'x >= 5' was evaluated with x = 5
C16_AtLeastEvaluated ==
  /\ pc = "step"
  /\ frames[Root].pc = "done"
  /\ StateOf(workflow, currentState).condition
       = <<"x", " ", ">", "=", " ", "5">>
  /\ Get(variables, X) = Num(5)

\* C17: the handler of a tool state is called with each string
\* parameter in which every {key} token is replaced by the value of that
\* key, for every key of the variables, and the handler's result is
\* stored unchanged under the state's _result key
C17_EveryTokenReplaced ==
  \A p \in DOMAIN frames :
    LET st == StateOf(workflow, frames[p].state)
    IN /\ frames[p].call = "handler" =>
            \A i \in 1..Len(st.parameters) :
              st.parameters[i][2].t = "str" =>
                frames[p].params[i][2]
                  = StrV(RenderTemplate(st.parameters[i][2].s, frames[p].view))
       /\ (p = Root /\ pc = "step" /\ frames[p].pc = "done"
             /\ st.type = "tool" /\ st.hasParameters) =>
            Lookup(variables, ResultKey(frames[p].state)) = frames[p].result

\* A handler called for the parameter '{x}{y}' in a context of x and y
C17_HandlerCalledWithTwoKeys ==
  /\ pc = "step"
  /\ frames[Root].call = "handler"
  /\ StateOf(workflow, currentState).parameters
       = Entry(Q, StrV(Token(X) \o Token(Y)))
  /\ HasKey(variables, X)
  /\ HasKey(variables, Y)

(***************************************************************************)
(* The fallback bridge.                                                    *)
(***************************************************************************)
\* C18: a respond_to_elicitation call with a pending id and a raw value
\* that validateResponse accepts is accepted: the waiter of that entry is
\* resolved with the transformed value, the history entry of that id
\* carries the transformed value, and the id is no longer pending
C18_ValidResponseResolves ==
  LET l == bridge.last
      transformed == WorkaroundTransformResponse(l.response, l.elicitation)
  IN (/\ l.op = "respond"
      /\ l.waiter # 0
      /\ WorkaroundValidateResponse(l.response, l.elicitation).valid)
       => /\ l.kind = "accepted"
          /\ l.value = transformed
          /\ bridge.waiters[l.waiter].state = "resolved"
          /\ bridge.waiters[l.waiter].value = transformed
          /\ \E i \in 1..Len(bridge.conversationHistory) :
               /\ bridge.conversationHistory[i].id = l.id
               /\ bridge.conversationHistory[i].hasResponse
               /\ bridge.conversationHistory[i].response = transformed
          /\ ~HasKey(bridge.pendingElicitations, l.id)

\* A number elicitation answered with the text '2' and resolved with the
\* number 2
C18_ResponseAccepted ==
  /\ bridge.last.kind = "accepted"
  /\ bridge.last.response = StrV(<<"2">>)
  /\ bridge.waiters[bridge.last.waiter].state = "resolved"
  /\ bridge.waiters[bridge.last.waiter].value = Num(2)

\* C19: a respond_to_elicitation call with a pending id and a raw value
\* that validateResponse rejects returns the error and leaves the pending
\* table, the waiters and the history as they were, and a valid response
\* for the same id right after it is still accepted and resolves the
\* waiter
C19_InvalidResponseChangesNothing ==
  [][LET l == bridge'.last
     IN /\ (/\ l # bridge.last
            /\ l.op = "respond"
            /\ l.waiter # 0
            /\ ~WorkaroundValidateResponse(l.response, l.elicitation).valid)
          => /\ l.kind = "invalid"
             /\ l.error # ""
             /\ bridge'.pendingElicitations = bridge.pendingElicitations
             /\ bridge'.waiters = bridge.waiters
             /\ bridge'.conversationHistory = bridge.conversationHistory
             /\ HasKey(bridge'.pendingElicitations, l.id)
             /\ bridge'.waiters[l.waiter].state = "pending"
        /\ (/\ bridge.last.kind = "invalid"
            /\ l # bridge.last
            /\ l.op = "respond"
            /\ l.id = bridge.last.id
            /\ WorkaroundValidateResponse(l.response,
                                          bridge.last.elicitation).valid)
          => /\ l.kind = "accepted"
             /\ bridge'.waiters[bridge.last.waiter].state = "resolved"]_vars

\* A response was refused and its elicitation is still pending
C19_ResponseRefused ==
  /\ bridge.last.kind = "invalid"
  /\ HasKey(bridge.pendingElicitations, bridge.last.id)
  /\ bridge.waiters[bridge.last.waiter].state = "pending"

\* C20: on every waiter resolve or reject is called at most once, by the
\* first valid response or by its timer, and at most one deletion from
\* the pending table is made for it; once its entry is gone its timer
\* and later responses delete nothing and settle nothing
C20_SettledAndRemovedOnce ==
  \A w \in 1..Len(bridge.waiters) :
    /\ bridge.waiters[w].settles <= 1
    /\ bridge.waiters[w].deletes <= 1
    /\ bridge.waiters[w].state # "pending" => bridge.waiters[w].deletes = 1

\* A timer fired for a waiter that a response had resolved
C20_TimerAfterResponse ==
  \E w \in 1..Len(bridge.waiters) :
    /\ bridge.waiters[w].state = "resolved"
    /\ bridge.waiters[w].timer = "fired"

\* C21: a new elicitation never receives the id of one that is still
\* pending: no two waiters that are both unsettled carry the same id, and
\* every unsettled waiter is the one its id's entry of the pending table
\* keeps
C21_PendingIdsUnique ==
  \A w \in 1..Len(bridge.waiters) :
    bridge.waiters[w].state = "pending" =>
      /\ \A v \in 1..Len(bridge.waiters) :
           (v # w /\ bridge.waiters[v].state = "pending")
             => bridge.waiters[v].id # bridge.waiters[w].id
      /\ HasKey(bridge.pendingElicitations, bridge.waiters[w].id)
      /\ Get(bridge.pendingElicitations, bridge.waiters[w].id).waiter = w

\* Two elicitations are pending at once
C21_TwoPending ==
  /\ Len(bridge.waiters) = 2
  /\ bridge.waiters[1].state = "pending"
  /\ bridge.waiters[2].state = "pending"
  /\ bridge.last.op = "create"

\* C22: once the timer of an elicitation has fired, its waiter is
\* settled - rejected with the timeout error unless a valid response had
\* resolved it before - and its id is not pending; a response for that id
\* made afterwards is answered 'not found' and resolves nothing
C22_TimeoutRejects ==
  \A w \in 1..Len(bridge.waiters) :
    bridge.waiters[w].timer = "fired" =>
      /\ bridge.waiters[w].state # "pending"
      /\ bridge.waiters[w].state = "rejected" =>
           bridge.waiters[w].value = StrV(<<"t", "i", "m", "e", "o", "u", "t">>)
      /\ ~HasKey(bridge.pendingElicitations, bridge.waiters[w].id)
      /\ (bridge.last.op = "respond" /\ bridge.last.id = bridge.waiters[w].id)
           => bridge.last.kind = "notFound"

\* A response was made for an elicitation that had timed out
C22_ResponseAfterTimeout ==
  \E w \in 1..Len(bridge.waiters) :
    /\ bridge.waiters[w].timer = "fired"
    /\ bridge.waiters[w].state = "rejected"
    /\ bridge.last.op = "respond"
    /\ bridge.last.id = bridge.waiters[w].id
    /\ bridge.last.kind = "notFound"

\* C23: of several respond_to_elicitation calls for the same pending id
\* only the first valid one resolves the waiter: every call for that id
\* made after it is answered 'not found' and leaves the waiters, the
\* pending table and the history as they were, the history entry holding
\* the value of the call that was accepted
C23_OneResponseWins ==
  [][LET l == bridge'.last
     IN (/\ bridge.last.op = "respond"
         /\ bridge.last.kind \in {"accepted", "notFound"}
         /\ l # bridge.last
         /\ l.op = "respond"
         /\ l.id = bridge.last.id)
          => /\ l.kind = "notFound"
             /\ bridge'.waiters = bridge.waiters
             /\ bridge'.pendingElicitations = bridge.pendingElicitations
             /\ bridge'.conversationHistory = bridge.conversationHistory
             /\ bridge.last.kind = "accepted" =>
                  /\ bridge'.waiters[bridge.last.waiter].state = "resolved"
                  /\ bridge'.waiters[bridge.last.waiter].value = bridge.last.value
                  /\ \E i \in 1..Len(bridge'.conversationHistory) :
                       /\ bridge'.conversationHistory[i].id = l.id
                       /\ bridge'.conversationHistory[i].hasResponse
                       /\ bridge'.conversationHistory[i].response
                            = bridge.last.value]_vars

\* A second valid response for an id that a first one had resolved, before
\* its timer fired
C23_SecondResponseLost ==
  /\ bridge.last.op = "respond"
  /\ bridge.last.kind = "notFound"
  /\ bridge.last.response = StrV(<<"y", "e", "s">>)
  /\ \E w \in 1..Len(bridge.waiters) :
       /\ bridge.waiters[w].id = bridge.last.id
       /\ bridge.waiters[w].state = "resolved"
       /\ bridge.waiters[w].value = Bool(TRUE)
       /\ bridge.waiters[w].timer = "armed"

\* C24: the history log holds one entry for every createElicitation
\* call, in the order of the calls, whatever was answered or timed out
\* since: it is as long as the number of elicitations created, and its
\* i-th entry carries the id given to the i-th call
C24_HistoryLogsEveryCreation ==
  /\ Len(bridge.conversationHistory) = Len(bridge.waiters)
  /\ \A i \in 1..Len(bridge.conversationHistory) :
       bridge.conversationHistory[i].id = bridge.waiters[i].id

\* Two elicitations were created, one was answered and the other timed
\* out
C24_AnsweredAndTimedOut ==
  /\ Len(bridge.conversationHistory) = 2
  /\ \E w \in 1..2 : bridge.waiters[w].state = "resolved"
  /\ \E w \in 1..2 : bridge.waiters[w].state = "rejected"

(***************************************************************************)
(* The runtime with fallback.                                              *)
(***************************************************************************)
\* C25: a respond_to_elicitation tools/call request with a pending id and
\* a valid response reaches handleResponse and resolves the pending
\* elicitation, whether or not the agent declares tools
C25_ResponseReachesBridge ==
  LET c == runtime.lastTool
  IN (/\ c.name = "respond_to_elicitation"
      /\ c.waiter # 0
      /\ WorkaroundValidateResponse(c.response, c.elicitation).valid)
       => /\ bridge.waiters[c.waiter].state = "resolved"
          /\ ~HasKey(bridge.pendingElicitations, c.id)

\* A valid response was sent for a pending elicitation to the runtime of
\* an agent that declares tools
C25_ResponseSentWithTools ==
  /\ runtime.tools
  /\ runtime.lastTool.name = "respond_to_elicitation"
  /\ runtime.lastTool.waiter # 0
  /\ WorkaroundValidateResponse(runtime.lastTool.response,
                                runtime.lastTool.elicitation).valid

\* C26: an elicitation is delivered natively when the connected client
\* supports elicitation, and through the fallback bridge only when it
\* does not
C26_DeliveryFollowsCapability ==
  /\ runtime.delivery = "fallback" => ~runtime.clientElicitation
  /\ runtime.delivery = "native" => runtime.clientElicitation

\* An elicitation was executed for a client that supports elicitation
C26_ExecutedForCapableClient ==
  /\ runtime.clientElicitation
  /\ runtime.delivery # "none"

(***************************************************************************)
(* Select elicitations.                                                    *)
(***************************************************************************)
\* C27: for a select elicitation with the options O, a response that is
\* the decimal string of an index i with 1 <= i <= |O| is accepted and
\* transformed to O[i], and a response that is neither one of the options
\* nor such an index (the indexes 0 and |O| + 1 included) is rejected
C27_SelectByOptionOrIndex ==
  LET l == bridge.last
      O == l.elicitation.options
      isIndex(i) == l.response = StrV(NatStr(i))
      isOption == l.response.t = "str" /\ \E i \in 1..Len(O) : O[i] = l.response.s
  IN (l.op = "respond" /\ l.waiter # 0 /\ l.elicitation.type = "select") =>
       /\ \A i \in 1..Len(O) :
            isIndex(i) => l.kind = "accepted" /\ l.value = StrV(O[i])
       /\ (~isOption /\ ~\E i \in 1..Len(O) : isIndex(i)) => l.kind = "invalid"

\* The second of two options was chosen by its index
C27_ChosenByIndex ==
  /\ bridge.last.kind = "accepted"
  /\ bridge.last.elicitation.type = "select"
  /\ bridge.last.response = StrV(<<"2">>)
  /\ bridge.last.value = StrV(<<"n", "o">>)

(***************************************************************************)
(* Loops.                                                                  *)
(***************************************************************************)
\* C28: a loop state calls its body only on a turn whose condition,
\* evaluated against the variables and the iteration counter, is true,
\* and at most maxIterations times (100 when none is declared); the
\* results it stores under its _results key are the body results in
\* iteration order, never more than that cap
C28_LoopWithinCap ==
  \A p \in DOMAIN frames :
    LET f == frames[p]
        st == StateOf(workflow, f.state)
        cap == IF st.declaresMaxIterations THEN st.maxIterations
               ELSE DefaultMaxIterations
    IN (HasState(workflow, f.state) /\ st.type = "loop") =>
         /\ Len(f.results) <= cap
         /\ f.pc = "body" =>
              /\ f.iteration < cap
              /\ evaluateCondition(st.condition,
                                   Put(f.view, IterationKey, Num(f.iteration)))
         /\ (p = Root /\ pc = "step" /\ f.pc = "done"
               /\ st.condition # <<>> /\ st.body # <<>>) =>
              /\ Lookup(variables, ResultsKey(f.state)) = ListV(f.results)
              /\ Len(f.results) = f.iteration

\* A loop on 'iteration < 2' stored the results of its two turns
C28_TwoTurnsStored ==
  /\ pc = "step"
  /\ frames[Root].pc = "done"
  /\ StateOf(workflow, currentState).type = "loop"
  /\ StateOf(workflow, currentState).condition = IterationBelowTwo
  /\ HasKey(variables, ResultsKey(currentState))
  /\ Len(Get(variables, ResultsKey(currentState)).l) = 2

(***************************************************************************)
(* The effect of one step on the variables.                                *)
(***************************************************************************)
\* C29: when the executeState call of a step returns for an elicitation,
\* sampling or tool state s, the variables differ from those the call
\* started with at most in the key s_response, s_completion or s_result;
\* for a response or conditional state they are the same object
C29_OnlyOwnKeyChanges ==
  (pc = "step" /\ frames[Root].pc = "done") =>
    LET st == StateOf(workflow, currentState)
        before == frames[Root].entry
        own == CASE st.type = "elicitation" -> ResponseKey(currentState)
                 [] st.type = "sampling"    -> CompletionKey(currentState)
                 [] st.type = "tool"        -> ResultKey(currentState)
                 [] OTHER                   -> <<>>
        keys == {before[i][1] : i \in 1..Len(before)}
                  \cup {variables[i][1] : i \in 1..Len(variables)}
    IN /\ st.type \in {"response", "conditional"} => variables = before
       /\ st.type \in {"elicitation", "sampling", "tool"} =>
            \A k \in keys \ {own} :
              /\ HasKey(variables, k) <=> HasKey(before, k)
              /\ Lookup(variables, k) = Lookup(before, k)

\* A tool state stored its result next to a variable that it kept
C29_ResultStoredBesideInput ==
  /\ pc = "step"
  /\ frames[Root].pc = "done"
  /\ StateOf(workflow, currentState).type = "tool"
  /\ frames[Root].entry # <<>>
  /\ ~HasKey(frames[Root].entry, ResultKey(currentState))
  /\ HasKey(variables, ResultKey(currentState))
  /\ Len(variables) = Len(frames[Root].entry) + 1

(***************************************************************************)
(* step on a context whose current state the workflow does not have.       *)
(***************************************************************************)
\* C30: when step is called with a currentState that is not a state of
\* the workflow, it never returns a context: no executeState call is made
\* and no collaborator is called, and it fails with the
\* StateTransitionError that names that id, the variables and the history
\* being those it was called with
C30_MissingStateFails ==
  ~HasState(workflow, input.currentState) =>
    /\ pc # "returned"
    /\ variables = input.variables
    /\ history = input.history
    /\ pc = "step" =>
         /\ DOMAIN frames = {Root}
         /\ frames[Root].pc = "fail"
         /\ frames[Root].call = "none"
         /\ ~frames[Root].hasRead
    /\ pc = "rejected" => outcome = StateNotFound(input.currentState)

\* step failed for the missing state z, with a history it was given
C30_MissingStateRejected ==
  /\ pc = "rejected"
  /\ input.currentState = Z
  /\ outcome.tag = "StateTransitionError"
  /\ outcome.fromState = Z
  /\ history # <<>>

(***************************************************************************)
(* Validation and unreachable states.                                      *)
(***************************************************************************)
\* C31: a workflow whose initial state, transitions targets, onTrue,
\* onFalse, branches and body all name existing states is accepted by
\* validateWorkflow even when the sweep over the transitions reports
\* unreachable states, and execute goes on to run it
C31_UnreachableOnlyReported ==
  LET exists(id) == HasState(workflow, id)
      declared(id) == id # <<>>
      sound(st) ==
        /\ \A t \in TransitionTargets(st) : exists(t)
        /\ declared(st.onTrue) => exists(st.onTrue)
        /\ declared(st.onFalse) => exists(st.onFalse)
        /\ \A i \in 1..Len(st.branches) : exists(st.branches[i])
        /\ declared(st.body) => exists(st.body)
      allExist ==
        /\ exists(workflow.initial)
        /\ \A i \in 1..Len(workflow.states) : sound(workflow.states[i][2])
  IN (allExist /\ unreachableStates(workflow) # {}) =>
       /\ validateWorkflow(workflow)
       /\ outcome # "ValidationFailed"
       /\ pc # "validate" => pc # "failed" \/ Len(history) > 0 \/ attempts > 0

\* A run that took a step in a workflow whose state c no transition leads to
C31_RanWithUnreachableState ==
  /\ validateWorkflow(workflow)
  /\ C \in unreachableStates(workflow)
  /\ Len(history) > 0

(***************************************************************************)
(* The retries of a step.                                                  *)
(***************************************************************************)
\* C32: in one iteration of execute's while step is attempted at most 3
\* times; execute fails only when the third attempt failed, with the
\* failure of that attempt and without executing or recording anything
\* more; an attempt that succeeds ends the retrying and records exactly
\* one step
C32_AtMostThreeAttempts ==
  [][/\ attempts' <= 3
     /\ (pc = "step" /\ pc' = "failed") =>
          /\ attempts = 3
          /\ outcome' = frames[Root].err
          /\ frames' = NoFrames
          /\ history' = history
          /\ currentState' = currentState
          /\ steps' = steps
     /\ (pc = "step" /\ pc' = "backoff") => attempts < 3
     /\ (pc = "step" /\ pc' \in {"loop", "done"}) =>
          /\ frames[Root].pc = "done"
          /\ Len(history') = Len(history) + 1
          /\ steps' \in {steps, steps + 1}
          /\ pc' = "loop" => steps' = steps + 1 /\ attempts' = attempts
     /\ pc = "failed" => pc' = "failed"]_vars

\* A run that ended on the timeout of the third attempt of a step
C32_ThirdAttemptTimedOut ==
  /\ pc = "failed"
  /\ outcome = "TimeoutError"
  /\ attempts = 3
  /\ frames = NoFrames

(***************************************************************************)
(* A failing branch of a parallel state.                                   *)
(***************************************************************************)
\* C33: when a parallel state settles, every one of its branches has
\* settled on its own: none was still running and interrupted because a
\* sibling had failed
C33_SiblingsNotCancelled ==
  \A p \in DOMAIN frames :
    frames[p].pc \in {"done", "fail"} => frames[p].interrupted = {}

\* A parallel state that failed with the failure of a branch
C33_BranchFailed ==
  /\ pc = "step"
  /\ HasState(workflow, currentState)
  /\ StateOf(workflow, currentState).type = "parallel"
  /\ frames[Root].pc = "fail"
  /\ frames[Root].err \notin {"TimeoutError", "TypeError"}

(***************************************************************************)
(* The transitions of the workflow machine.                                *)
(***************************************************************************)
\* C34: when the service of a state completes with an outcome that is a
\* key of the state's transitions, the machine enters the target declared
\* under that key
C34_TargetOfOutcomeKey ==
  machine.last.op = "done" =>
    LET config == StateOf(workflow, machine.last.from)
        key == JSString(machine.last.output)
    IN (config.hasTransitions /\ HasKey(config.transitions, key)) =>
         /\ machine.value = Get(config.transitions, key)
         /\ machine.history[Len(machine.history)] = Get(config.transitions, key)

\* The elicitation of a completed with 'ok', a key of its transitions
C34_CompletedWithDeclaredOutcome ==
  /\ machine.last.op = "done"
  /\ machine.last.from = A
  /\ machine.last.output = StrV(Ok)
  /\ StateOf(workflow, A).type = "elicitation"
  /\ machine.value = B

(***************************************************************************)
(* The states a run dereferences.                                          *)
(***************************************************************************)
\* C35: in a run of a workflow that validateWorkflow accepted, the
\* current state of every iteration and the state of every executeState
\* call - the branches of parallel states and the bodies of loop states
\* included - is a state of the workflow, and the run never ends with a
\* thrown TypeError
C35_OnlyExistingStatesRead ==
  (pc \notin {"validate", "idle"} /\ validateWorkflow(workflow)) =>
    /\ pc # "crashed"
    /\ pc \in {"loop", "step", "backoff"} => HasState(workflow, currentState)
    /\ \A p \in DOMAIN frames : HasState(workflow, frames[p].state)

\* A call of executeState for the branch of a parallel state
C35_BranchDereferenced ==
  /\ pc = "step"
  /\ validateWorkflow(workflow)
  /\ \E p \in DOMAIN frames :
       /\ Len(p) = 1
       /\ frames[Root].pc = "join"
       /\ HasState(workflow, frames[p].state)
       /\ frames[p].pc = "done"

(***************************************************************************)
(* Termination.                                                            *)
(***************************************************************************)
\* C36: a run of a workflow that validateWorkflow accepted takes at most
\* maxSteps steps (1000 when none is declared), and the executeState
\* calls of a step are finitely many: no call is nested in a call for
\* the same state, and no nesting goes on beyond the depth that is
\* followed
C36_StepsAndBodiesBounded ==
  LET maxSteps == IF workflow.declaresMaxSteps THEN workflow.maxSteps
                  ELSE DefaultMaxSteps
  IN (pc \notin {"validate", "idle"} /\ validateWorkflow(workflow)) =>
       /\ steps <= maxSteps
       /\ \A q \in DOMAIN frames :
            /\ frames[q].pc # "deep"
            /\ \A p \in DOMAIN frames :
                 (IsPrefix(p, q) /\ p # q) => frames[p].state # frames[q].state

\* A run of a loop state that ended after its one step
C36_LoopRunEnded ==
  /\ pc = "done"
  /\ steps = 1
  /\ currentState = B
  /\ StateOf(workflow, workflow.initial).type = "loop"

(***************************************************************************)
(* The history as a path.                                                  *)
(***************************************************************************)
\* C37: the first history entry is for workflow.initial; each entry that
\* is appended is for the state that was current, which is the successor
\* chosen by the step before it; and the step that appends it makes its
\* nextState the current state, or leaves the current state when it
\* chose none
C37_HistoryIsPath ==
  [][/\ Len(history') > 0 => history'[1].state = workflow.initial
     /\ history' # history =>
          /\ pc = "step"
          /\ frames[Root].pc = "done"
          /\ Len(history') = Len(history) + 1
          /\ history'[Len(history')].state = currentState
          /\ currentState' = IF frames[Root].next # <<>>
                             THEN frames[Root].next ELSE currentState
     /\ history' = history => currentState' = currentState \/ pc = "validate"
    ]_vars

\* A run with two entries that moved from a to b and from b on
C37_TwoStepPath ==
  /\ Len(history) = 2
  /\ history[1].state = A
  /\ history[2].state = B
  /\ currentState \notin {A, B}

(***************************************************************************)
(* The history is append-only.                                             *)
(***************************************************************************)
\* C38: the history changes only when an attempt of step succeeds, and
\* then by exactly one entry appended to the entries it had, holding a
\* copy of the variables; an attempt that fails appends none, also when
\* a later attempt succeeds; so the history is as long as the number of
\* steps that succeeded: the steps counted by execute, and one more when
\* the run stopped as stuck
C38_HistoryAppendOnly ==
  [][/\ SubSeq(history', 1, Len(history)) = history
     /\ Len(history') >= Len(history)
     /\ history' # history =>
          /\ pc = "step"
          /\ frames[Root].pc = "done"
          /\ history' = Append(history,
                               [state |-> currentState, variables |-> variables])
     /\ (pc = "step" /\ frames[Root].pc = "done" /\ pc' # "step") =>
          Len(history') = Len(history) + 1
     /\ (pc = "step" /\ frames[Root].pc = "fail" /\ pc' # "step") =>
          history' = history
     /\ Len(history') = IF outcome' = "stuck" THEN steps' + 1 ELSE steps'
    ]_vars

\* A step that succeeded on its second attempt and was recorded once
C38_RecordedAfterRetry ==
  /\ pc \in {"loop", "done"}
  /\ attempts = 2
  /\ Len(history) = 1
  /\ history[1].variables # <<>>

(***************************************************************************)
(* The pending table and the history log of the fallback bridge.           *)
(***************************************************************************)
\* C39: in every state of the fallback bridge every id of the pending
\* table has an entry in the history log, an entry of the history log
\* carries a response only if its id is not in the pending table, and
\* the entry of an elicitation that timed out carries no response
C39_PendingAgreesWithHistory ==
  /\ \A i \in 1..Len(bridge.pendingElicitations) :
       \E h \in 1..Len(bridge.conversationHistory) :
         bridge.conversationHistory[h].id = bridge.pendingElicitations[i][1]
  /\ \A h \in 1..Len(bridge.conversationHistory) :
       bridge.conversationHistory[h].hasResponse =>
         ~HasKey(bridge.pendingElicitations, bridge.conversationHistory[h].id)
  /\ \A w \in 1..Len(bridge.waiters) :
       bridge.waiters[w].state = "rejected" =>
         ~bridge.conversationHistory[w].hasResponse

(***************************************************************************)
(* Select elicitations answered by an option.                              *)
(***************************************************************************)
\* C40: for a select elicitation a raw value that equals one of the
\* declared options is accepted, and transformResponse returns that same
\* option, whatever the option texts are: in the bridge, where the
\* response comes through respond_to_elicitation, and in the elicitation
\* service
C40_OptionReturnedAsGiven ==
  LET l == bridge.last
      O == l.elicitation.options
      isOption == l.response.t = "str" /\ \E i \in 1..Len(O) : O[i] = l.response.s
  IN /\ (/\ l.op = "respond" /\ l.waiter # 0
         /\ l.elicitation.type = "select" /\ isOption) =>
          l.kind = "accepted" /\ l.value = l.response
     /\ \A e \in SelectElicitations : \A i \in 1..Len(e.options) :
          /\ validateResponse(StrV(e.options[i]), e)
          /\ transformResponse(StrV(e.options[i]), e) = StrV(e.options[i])

====
